---- MODULE Spec2Model ----
(***************************************************************************)
(* Model of the Apple Calendar coordinator                                 *)
(* (custom_components/apple_calendar_7day/coordinator.py): connection      *)
(* setup with retries, the per-calendar fetch cycle, event parsing, the    *)
(* cached-data fallback of _async_update_data and the write path           *)
(* async_create_event; with the views of the calendar entity (calendar.py) *)
(* and the refresh cycles the host starts.                                 *)
(***************************************************************************)
EXTENDS Integers, Sequences, FiniteSets, TLC

VARIABLES
    clock,        \* current instant (UTC ticks) read by dt_util.now()
    remote,       \* events stored on the server: sequence of [cal, raw]
    client,       \* self.client: "none" (None) or "set"
    calendars,    \* self.calendars: known calendar ids, in insertion order
    data,         \* self.data: the value last returned by _async_update_data
    pc,           \* position of the coordinator: idle / attempt / wait / fetch
    caller,       \* "refresh" when the current call runs _async_setup
    attempt,      \* loop index of _async_setup
    nAttempts,    \* executions of _setup_client in the current/last call
    nDelays,      \* executions of asyncio.sleep in the current/last call
    slept,        \* total time slept in the current/last call
    setupResult,  \* how _async_setup ended in the current/last call
    lastErr,      \* the error of the last attempt, when it raised
    ready,        \* some _setup_client has run to its end
    authFailed,   \* some _async_setup run has ended in ConfigEntryAuthFailed
    call,         \* the call in progress or last finished, and what it did
    cycle,        \* the inputs and the outcome of the last fetch cycle
    pin,          \* input of the parser under SpecParse
    pout,         \* result of the parser under SpecParse
    cr,           \* the async_create_event call in progress or last finished
    view,         \* a Snapshot handed to a consumer, and the last view computed
    conc,         \* the refresh cycles in flight and the host's refresh timers
    options,      \* entry.options, the options of the config entry
    entry,        \* the config entry as the host sees it
    flow          \* the last step of the config flow

vars == <<clock, remote, client, calendars, data, pc, caller, attempt,
          nAttempts, nDelays, slept, setupResult, lastErr, ready,
          authFailed, call, cycle, pin, pout, cr,
          view, conc, options, entry, flow>>

(***************************************************************************)
(* Bounds of the model.                                                    *)
(***************************************************************************)
MaxEvents == 2      \* raw events stored on the server
MaxTime == 1        \* last value of the clock
DayLen == 3         \* ticks per day
LocalOffset == 1    \* UTC offset of the configured local time zone, in ticks

(***************************************************************************)
(* Program constants.                                                      *)
(***************************************************************************)
max_retries == 3
retry_delay == 5

CalIds == {"A", "B", "C"}
ServerCalendars == <<"A", "B", "C">>    \* principal.calendars(), server order

SeqsUpTo(S, n) == UNION {[1..k -> S] : k \in 0..n}

(***************************************************************************)
(* Date and time values.  A datetime is a wall-clock reading with an       *)
(* optional UTC offset (aware) or none (naive); a raw iCalendar value is a *)
(* datetime, a pure date, a None value, or a missing property.             *)
(***************************************************************************)
Dt(w, a, o) == [wall |-> w, aware |-> a, off |-> o]
RawDatetime(w, a, o) == [kind |-> "datetime", wall |-> w, aware |-> a, off |-> o]
RawDate(d) == [kind |-> "date", wall |-> d, aware |-> FALSE, off |-> 0]
RawNone == [kind |-> "none", wall |-> 0, aware |-> FALSE, off |-> 0]
Missing == [kind |-> "missing", wall |-> 0, aware |-> FALSE, off |-> 0]

\* a property given twice: the component returns a list, which has no .dt
RawList == [kind |-> "list", wall |-> 0, aware |-> FALSE, off |-> 0]

\* textual values: an ISO-8601 date-time with or without a UTC offset, a
\* date alone ("YYYY-MM-DD"), a date followed by "T" and something that is no
\* time, and a text that is no date at all
RawTextIso(w, a, o) == [kind |-> "text_iso", wall |-> w, aware |-> a, off |-> o]
RawTextDate(d) == [kind |-> "text_date", wall |-> d, aware |-> FALSE, off |-> 0]
RawTextDateJunk(d) == [kind |-> "text_date_junk", wall |-> d, aware |-> FALSE, off |-> 0]
RawTextBad == [kind |-> "text_bad", wall |-> 0, aware |-> FALSE, off |-> 0]

\* dt_util.now(): the current instant as an aware local datetime
Now(clk) == Dt(clk + LocalOffset, TRUE, LocalOffset)

\* dt_util.as_local of a naive datetime: the same wall clock, local zone
AsLocal(w) == Dt(w, TRUE, LocalOffset)

\* the instant of an aware datetime
Instant(d) == d.wall - d.off

\* Python's datetime comparison: aware values by instant, naive values by
\* wall clock; a naive and an aware value do not compare (TypeError)
Comparable(a, b) == a.aware = b.aware
DtLess(a, b) == IF a.aware THEN Instant(a) < Instant(b) ELSE a.wall < b.wall
DtLeq(a, b) == IF a.aware THEN Instant(a) <= Instant(b) ELSE a.wall <= b.wall

\* _parse_datetime.  A datetime.date has no attribute "date", so a pure date
\* takes the string branch, where dt_util.parse_datetime("YYYY-MM-DD") yields
\* the naive midnight of that day.  A text is returned as parse_datetime
\* reads it (with the offset it carries, or naive); when parse_datetime
\* gives None the part before "T" is read as a date and made local; the
\* rest is now().
ParseDatetime(v, clk) ==
    CASE v.kind = "none" -> Now(clk)
      [] v.kind = "datetime" ->
            IF v.aware THEN Dt(v.wall, TRUE, v.off) ELSE AsLocal(v.wall)
      [] v.kind = "date" -> Dt(v.wall * DayLen, FALSE, 0)
      [] v.kind = "text_iso" -> Dt(v.wall, v.aware, IF v.aware THEN v.off ELSE 0)
      [] v.kind = "text_date" -> Dt(v.wall * DayLen, FALSE, 0)
      [] v.kind = "text_date_junk" -> AsLocal(v.wall * DayLen)
      [] OTHER -> Now(clk)

\* _parse_event: <<>> stands for None, <<e>> for the parsed event e
\* a property value of an attendee or organizer: its token (str(value)), and
\* its parameters: with a CN, without a CN, or a value that has no params
Person(token, params, cn) == [token |-> token, params |-> params, cn |-> cn]

\* the ATTENDEE or ORGANIZER property of a component: absent, one value, or
\* a list of values
Absent == [kind |-> "absent"]
Single(p) == [kind |-> "single", val |-> p]
Listed(ps) == [kind |-> "list", vals |-> ps]
Prop(raw, name) == IF name \in DOMAIN raw THEN raw[name] ELSE Absent

\* the attendee loop: a value without params is passed over, the others give
\* their CN, or their token when they have no CN
RECURSIVE AttendeeNames(_)
AttendeeNames(ps) ==
    IF ps = <<>> THEN <<>>
    ELSE LET p == Head(ps)
         IN (IF p.params = "none" THEN <<>>
             ELSE IF p.params = "cn" THEN <<p.cn>> ELSE <<p.token>>)
            \o AttendeeNames(Tail(ps))

Attendees(raw) ==
    LET f == Prop(raw, "attendee")
    IN IF f.kind = "absent" THEN <<>>
       ELSE AttendeeNames(IF f.kind = "list" THEN f.vals ELSE <<f.val>>)

\* the organizer: its CN if it has params with a CN, else str(org)
Organizer(raw) ==
    LET f == Prop(raw, "organizer")
    IN IF f.kind = "absent" THEN ""
       ELSE IF f.val.params = "cn" THEN f.val.cn ELSE f.val.token

\* whether _parse_datetime reads the clock for the value: its result depends
\* on the time of the call
FallsBack(v) == ParseDatetime(v, 0) # ParseDatetime(v, 1)

\* the number of times _parse_event reads the clock for the raw event: once
\* for a start that falls back to now(), and once more for an end that does
NowCalls(raw) ==
    IF raw.dtstart.kind \in {"missing", "list"} THEN 0
    ELSE (IF FallsBack(raw.dtstart) THEN 1 ELSE 0)
            + (IF raw.dtend.kind \notin {"missing", "list"} /\ FallsBack(raw.dtend)
               THEN 1 ELSE 0)

\* ts are the readings of the clock the call takes, in their order: the
\* one of the start, if it takes one, is before the one of the end
ParseEvent(raw, cid, cname, ts) ==
    IF raw.dtstart.kind = "missing" THEN <<>>
    ELSE IF raw.dtstart.kind = "list" \/ raw.dtend.kind = "list" THEN <<>>
    ELSE LET first == FallsBack(raw.dtstart)
             start_dt == ParseDatetime(raw.dtstart, IF first THEN ts[1] ELSE 0)
             end_dt == IF raw.dtend.kind = "missing" THEN start_dt
                       ELSE ParseDatetime(raw.dtend,
                                IF FallsBack(raw.dtend)
                                THEN ts[IF first THEN 2 ELSE 1] ELSE 0)
         IN <<[uid |-> raw.uid, summary |-> raw.summary,
               start |-> start_dt, end |-> end_dt,
               all_day |-> (raw.dtstart.kind = "date"),
               calendar |-> cname,
               attendees |-> Attendees(raw), organizer |-> Organizer(raw),
               calendar_id |-> cid]>>

\* the sync window of _fetch_events: from today's local midnight, for
\* days_to_sync days
DEFAULT_DAYS_TO_SYNC == 7

StartDate(clk) == Dt((Now(clk).wall \div DayLen) * DayLen, TRUE, LocalOffset)

DEFAULT_AUTO_REFRESH == TRUE

\* the options the config flow creates the entry with
EntryOptions ==
    [days_to_sync |-> DEFAULT_DAYS_TO_SYNC, auto_refresh |-> DEFAULT_AUTO_REFRESH]

\* options.get(CONF_DAYS_TO_SYNC, DEFAULT_DAYS_TO_SYNC)
DaysToSync(opts) ==
    IF "days_to_sync" \in DOMAIN opts THEN opts.days_to_sync
    ELSE DEFAULT_DAYS_TO_SYNC

\* options.get(CONF_AUTO_REFRESH, DEFAULT_AUTO_REFRESH)
AutoRefresh(opts) ==
    IF "auto_refresh" \in DOMAIN opts THEN opts.auto_refresh
    ELSE DEFAULT_AUTO_REFRESH

\* variant: the window has the default length whatever the options say
EndDateDefault(clk, days) ==
    Dt(StartDate(clk).wall + DEFAULT_DAYS_TO_SYNC * DayLen, TRUE, LocalOffset)

\* end_date: days is the days_to_sync the job read from the options
EndDate(clk, days) ==
    Dt(StartDate(clk).wall + days * DayLen, TRUE, LocalOffset)

(***************************************************************************)
(* The server.                                                             *)
(***************************************************************************)
\* display names the server reports
ServerName(c) == CASE c = "A" -> "Home" [] c = "B" -> "Work" [] OTHER -> "Family"

\* a raw event with a start and no end
StartOnly(u, s) ==
    [uid |-> u, summary |-> "", dtstart |-> s, dtend |-> Missing]

\* a raw event with a start and an end that is no date or time
BadEnd(u, s) ==
    [uid |-> u, summary |-> "", dtstart |-> s, dtend |-> RawTextBad]

\* what the server may hold: timed events of the three calendars, two of
\* them with the same start, one with an unreadable end, and an all-day
\* event
ServerPool ==
    { [cal |-> "A", raw |-> BadEnd("a1", RawDatetime(2, TRUE, 0))],
      [cal |-> "B", raw |-> StartOnly("b1", RawDatetime(1, TRUE, 0))],
      [cal |-> "C", raw |-> StartOnly("c1", RawDatetime(1, TRUE, 0))],
      [cal |-> "C", raw |-> StartOnly("c2", RawDate(0))] }
\* the servers: a calendar holds an event of a uid once
RemoteSet ==
    {s \in SeqsUpTo(ServerPool, MaxEvents) :
        \A i, j \in 1..Len(s) : i # j => s[i] # s[j]}

\* sets of calendars whose display-name lookup fails during one pass: the
\* lookup of calendar B may fail, the others answer
FlakySets == SUBSET {"B"}

\* the instant the server takes a stored value for: a value without a zone
\* (a date, a floating time) is read in the local zone
RawInstant(v) ==
    CASE v.kind = "date" -> v.wall * DayLen - LocalOffset
      [] v.aware -> v.wall - v.off
      [] OTHER -> v.wall - LocalOffset

\* the time-range test of the server for the range [ws, we): an event with an
\* end overlaps the range, an all-day event without an end lasts one day, a
\* timed event without a readable end is an instant
InRange(raw, ws, we) ==
    LET st == RawInstant(raw.dtstart)
    IN IF raw.dtstart.kind \in {"missing", "list"} THEN TRUE
       ELSE IF raw.dtend.kind \in {"date", "datetime"}
       THEN st < Instant(we) /\ RawInstant(raw.dtend) > Instant(ws)
       ELSE IF raw.dtstart.kind = "date"
            THEN st < Instant(we) /\ st + DayLen > Instant(ws)
            ELSE Instant(ws) <= st /\ st < Instant(we)

\* calendar.search(start, end, event=True, expand=True): the raw events of
\* calendar c inside the range, in the server's order
Search(srv, c, ws, we) ==
    LET sel == SelectSeq(srv, LAMBDA x : x.cal = c /\ InRange(x.raw, ws, we))
    IN [i \in 1..Len(sel) |-> sel[i].raw]

(***************************************************************************)
(* _setup_client                                                           *)
(***************************************************************************)
\* the error signal of a failed connection: what str(err) contains
ErrSignals == [has401 : BOOLEAN, authWord : {"none", "lower", "upper"}]

\* variant: the word is matched without lower()
IsAuthErrorCaseSensitive(err) == err.has401 \/ err.authWord = "lower"

\* "401" in str(err) or "authentication" in str(err).lower()
IsAuthError(err) == err.has401 \/ err.authWord # "none"

\* the calendars kept by the discovery loop: a calendar whose display-name
\* lookup raises is logged and not stored
Discover(nameFail) == SelectSeq(ServerCalendars, LAMBDA c : c \notin nameFail)

\* self.client after _setup_client: the client is assigned before the first
\* request, so only a failure of the constructor leaves it as it was
ClientAfter(stage, old) == IF stage = "ctor" THEN old ELSE "set"

(***************************************************************************)
(* _fetch_events                                                           *)
(***************************************************************************)
NoData == [none |-> TRUE]

\* _get_calendar_name: a failed or empty lookup gives the sentinel
GetCalendarName(c, nameFail) ==
    IF c \in nameFail THEN "Unknown Calendar" ELSE ServerName(c)

\* The job reads the options of the entry once, at its start, and then the
\* clock several times while time goes on: for the sync window, in the
\* parsing of an event for each value that falls back to now(), and for
\* last_updated.  The readings of the clock of one job, in the order they
\* are taken: n values between lo and hi that never go back.
RECURSIVE Readings(_, _, _)
Readings(lo, hi, n) ==
    IF n = 0 THEN {<<>>}
    ELSE UNION {{<<v>> \o r : r \in Readings(v, hi, n - 1)} : v \in lo..hi}

\* the number of readings the parsing of the raw events takes
RECURSIVE Calls(_)
Calls(raws) ==
    IF raws = <<>> THEN 0 ELSE NowCalls(Head(raws)) + Calls(Tail(raws))

\* the raw events the server holds
Raws(srv) == [i \in 1..Len(srv) |-> srv[i].raw]

\* the readings r of a job as a schedule: the first is the one of the window,
\* the last the one taken at its end, the others those the parsing of the
\* events takes, one after the other
\* days is the days_to_sync the job read before them
Schedule(r, days) ==
    [days |-> days, window |-> r[1], parse |-> SubSeq(r, 2, Len(r) - 1),
     last |-> r[Len(r)]]

\* the options since the job was entered at clk: the value of days_to_sync
\* the entry held then
Held(opts, clk) == {[days |-> DaysToSync(opts), at |-> clk]}

\* the options are stored at clk while a job is in flight that has seen the
\* values of seen: the job may read the new value from then on
Store(seen, opts, clk) ==
    IF \E s \in seen : s.days = DaysToSync(opts) THEN seen
    ELSE seen \cup Held(opts, clk)

\* the schedules of a job on server srv that is entered at lo, when the
\* call that awaits it resumes at hi: the job took its last reading when it
\* ended, no later than that; seen are the values of days_to_sync
\* the entry held since lo, each with the time it was stored: the job reads
\* one of them and, after that, the clock for the window
Schedules(srv, lo, hi, seen) ==
    LET n == Calls(Raws(srv)) + 2
    IN  UNION {{Schedule(r, s.days) : s \in {x \in seen : x.at <= r[1]}} :
                  r \in Readings(lo, hi, n)}

\* the schedules of the job in flight, if there is one
JobSchedules ==
    IF pc \in {"fetch", "create_refresh"}
    THEN Schedules(remote, cycle.entered, clock, cycle.seen) ELSE {}

\* the schedule of a job during which the clock stays at clk and the
\* options are opts
At(srv, clk, opts) ==
    Schedule([i \in 1..(Calls(Raws(srv)) + 2) |-> clk], DaysToSync(opts))

\* variant: the first event that parses to None ends the loop of its calendar
RECURSIVE ParseAllAbort(_, _, _, _)
ParseAllAbort(raws, cid, cname, ts) ==
    IF raws = <<>> THEN <<>>
    ELSE LET k == NowCalls(Head(raws))
             parsed == ParseEvent(Head(raws), cid, cname, SubSeq(ts, 1, k))
         IN IF parsed = <<>> THEN <<>>
            ELSE parsed \o ParseAllAbort(Tail(raws), cid, cname,
                                         SubSeq(ts, k + 1, Len(ts)))

\* the inner loop: parse every raw event, keep the ones that are not None;
\* an event takes the next readings of ts its parsing asks for
RECURSIVE ParseAll(_, _, _, _)
ParseAll(raws, cid, cname, ts) ==
    IF raws = <<>> THEN <<>>
    ELSE LET k == NowCalls(Head(raws))
         IN ParseEvent(Head(raws), cid, cname, SubSeq(ts, 1, k))
                \o ParseAll(Tail(raws), cid, cname, SubSeq(ts, k + 1, Len(ts)))

\* variant: the calendar is entered in calendar_info after its search
RECURSIVE FetchLoopInfoLate(_, _, _, _, _, _)
FetchLoopInfoLate(cals, srv, searchFail, nameFail, rd, acc) ==
    IF cals = <<>> THEN acc
    ELSE LET c == Head(cals)
             name == GetCalendarName(c, nameFail)
             found == Search(srv, c, StartDate(rd.window),
                            EndDate(rd.window, rd.days))
             info == (c :> [name |-> name, id |-> c]) @@ acc.calendar_info
             next == IF c \in searchFail
                     THEN [all_events |-> acc.all_events,
                           calendar_info |-> acc.calendar_info,
                           failed |-> Append(acc.failed, c)]
                     ELSE [all_events |-> acc.all_events
                                \o ParseAll(found, c, name, rd.parse),
                           calendar_info |-> info,
                           failed |-> acc.failed]
             rest == IF c \in searchFail THEN rd
                     ELSE [rd EXCEPT !.parse =
                              SubSeq(@, Calls(found) + 1,
                                     Len(@))]
         IN FetchLoopInfoLate(Tail(cals), srv, searchFail, nameFail, rest, next)

\* the loop over self.calendars.items(): a calendar whose search raises is
\* appended to failed_calendars and the loop goes on; rd is what is left of
\* the schedule of the job, its first parse readings those of this calendar
RECURSIVE FetchLoop(_, _, _, _, _, _)
FetchLoop(cals, srv, searchFail, nameFail, rd, acc) ==
    IF cals = <<>> THEN acc
    ELSE LET c == Head(cals)
             name == GetCalendarName(c, nameFail)
             found == Search(srv, c, StartDate(rd.window),
                            EndDate(rd.window, rd.days))
             info == (c :> [name |-> name, id |-> c]) @@ acc.calendar_info
             next == IF c \in searchFail
                     THEN [all_events |-> acc.all_events,
                           calendar_info |-> info,
                           failed |-> Append(acc.failed, c)]
                     ELSE [all_events |-> acc.all_events
                                \o ParseAll(found, c, name, rd.parse),
                           calendar_info |-> info,
                           failed |-> acc.failed]
             rest == IF c \in searchFail THEN rd
                     ELSE [rd EXCEPT !.parse =
                              SubSeq(@, Calls(found) + 1,
                                     Len(@))]
         IN FetchLoop(Tail(cals), srv, searchFail, nameFail, rest, next)

\* list.sort raises TypeError when a naive and an aware key are compared
SortRaises(evs) ==
    \E i, j \in 1..Len(evs) : ~Comparable(evs[i].start, evs[j].start)

\* variant: an unstable sort, an element goes before its equals
RECURSIVE InsertSortedUnstable(_, _)
InsertSortedUnstable(sorted, e) ==
    IF sorted = <<>> THEN <<e>>
    ELSE IF DtLeq(e.start, Head(sorted).start) THEN <<e>> \o sorted
         ELSE <<Head(sorted)>> \o InsertSortedUnstable(Tail(sorted), e)

\* list.sort(key=start) is stable: an element goes after the elements that
\* are not greater than it
RECURSIVE InsertSorted(_, _)
InsertSorted(sorted, e) ==
    IF sorted = <<>> THEN <<e>>
    ELSE IF DtLess(e.start, Head(sorted).start) THEN <<e>> \o sorted
         ELSE <<Head(sorted)>> \o InsertSorted(Tail(sorted), e)

RECURSIVE SortEvents(_)
SortEvents(evs) ==
    IF evs = <<>> THEN <<>>
    ELSE InsertSorted(SortEvents(SubSeq(evs, 1, Len(evs) - 1)), evs[Len(evs)])

\* _fetch_events with the clock readings of schedule rd: [raised, value]
FetchEvents(cals, srv, searchFail, nameFail, rd) ==
    IF cals = <<>>
    THEN [raised |-> FALSE, value |-> [events |-> <<>>, calendars |-> <<>>]]
    ELSE LET acc == FetchLoop(cals, srv, searchFail, nameFail, rd,
                        [all_events |-> <<>>, calendar_info |-> <<>>,
                         failed |-> <<>>])
         IN IF SortRaises(acc.all_events)
            THEN [raised |-> TRUE, value |-> NoData]
            ELSE [raised |-> FALSE,
                  value |-> [events |-> SortEvents(acc.all_events),
                             calendars |-> acc.calendar_info,
                             last_updated |-> Now(rd.last),
                             failed_calendars |-> acc.failed]]

\* variant: the except branch without the cached-data fallback
FallbackNoCache(old, clk) ==
    [events |-> <<>>, calendars |-> <<>>, last_updated |-> Now(clk)]

\* variant: the except branch returns self.data without testing it
FallbackAlwaysCache(old, clk) == old

\* the except branch of _async_update_data: cached data if there is any,
\* else an empty structure
Fallback(old, clk) ==
    IF old # NoData THEN old
    ELSE [events |-> <<>>, calendars |-> <<>>, last_updated |-> Now(clk)]

\* variant: a new Snapshot is merged into the cached one
UpdateDataMerged(old, fetched, fault, clk) ==
    IF fault \/ fetched.raised THEN Fallback(old, clk)
    ELSE IF "last_updated" \in DOMAIN fetched.value /\ old # NoData
         THEN [fetched.value EXCEPT
                  !.events = SortEvents(old.events \o fetched.value.events)]
         ELSE fetched.value

\* the value _async_update_data returns once setup is done
UpdateData(old, fetched, fault, clk) ==
    IF fault \/ fetched.raised THEN Fallback(old, clk) ELSE fetched.value

\* which branch produced the value
CycleOutcome(old, cals, fetched, fault) ==
    IF fault \/ fetched.raised
    THEN (IF old # NoData THEN "stale" ELSE "empty")
    ELSE (IF cals = <<>> THEN "nocal" ELSE "built")

\* the config entry is not followed
NoEntry == [state |-> "none"]

\* no fetch job yet.  Of a job: entered is the clock when it was entered,
\* seen the values of days_to_sync the entry held since then, days the one
\* the job read, clk its reading of the clock for the sync window, window
\* that window; built is the window of the job that built the Snapshot now
\* served
NoCycle ==
    [outcome |-> "none", searchFail |-> {}, fault |-> FALSE, entered |-> 0,
     seen |-> {}, days |-> 0, clk |-> 0, repeat |-> "no", window |-> <<>>,
     built |-> <<>>]

\* a call is entered: nothing is known of its job yet
ResetCycle(c) == [NoCycle EXCEPT !.built = c.built]

\* the fetch job of a call is entered at clk, the options being opts
EnterCycle(c, clk, opts) ==
    [NoCycle EXCEPT !.built = c.built, !.entered = clk, !.seen = Held(opts, clk)]

\* the last clock reading of the cycle that built Snapshot d
FetchClock(d) == d.last_updated.wall - LocalOffset

\* whether a cycle that built new, with the readings rd, repeats the cycle
\* that built old, whose window was built: the same calendars with the same
\* names, the same failed searches, the same sync window; with every reading
\* the same as the last one of that cycle, or later
Repeat(old, built, new, outcome, rd) ==
    IF /\ outcome = "built"
       /\ "failed_calendars" \in DOMAIN old
       /\ old.failed_calendars = new.failed_calendars
       /\ old.calendars = new.calendars
       /\ built = <<StartDate(rd.window), EndDate(rd.window, rd.days)>>
    THEN (IF FetchClock(old) = rd.last THEN "same_time" ELSE "later")
    ELSE "no"

\* what is kept of a fetch job when it ends (not the time it was entered)
EndCycle(c, old, cals, fetched, searchFail, fault, rd) ==
    LET outcome == CycleOutcome(old, cals, fetched, fault)
        window == <<StartDate(rd.window), EndDate(rd.window, rd.days)>>
    IN  [outcome |-> outcome, searchFail |-> searchFail, fault |-> fault,
         entered |-> 0, seen |-> {}, days |-> rd.days, clk |-> rd.window,
         repeat |-> Repeat(old, c.built, fetched.value, outcome, rd),
         window |-> window,
         built |-> IF outcome = "built" THEN window
                   ELSE IF outcome = "stale" THEN c.built ELSE <<>>]

Range(s) == {s[i] : i \in 1..Len(s)}

(***************************************************************************)
(* The coordinator as a state machine.                                     *)
(***************************************************************************)
NoCall == [result |-> "none", io |-> FALSE, afterAuth |-> FALSE]

NoErr == [has401 |-> FALSE, authWord |-> "no error"]

\* no step of the config flow taken
NoFlow == [result |-> "none", base |-> "", test |-> "none", err |-> NoErr]

NoRaw == [uid |-> "", summary |-> "", dtstart |-> Missing, dtend |-> Missing]

\* no Snapshot handed out and no view computed yet
NoView ==
    [held |-> NoData, at |-> NoData, same |-> FALSE,
     out |-> [raised |-> FALSE, result |-> <<>>],
     cid |-> "", list |-> <<>>, kind |-> "", now |-> 0, rng |-> <<>>]

\* the filtered list of the last view is kept until a call of the
\* coordinator starts or ends
Forget(v) ==
    [v EXCEPT !.cid = "", !.list = <<>>, !.kind = "", !.now = 0, !.rng = <<>>]

\* the object a consumer holds is still self.data after a cycle only when
\* the cycle returned self.data itself; every other branch returns a new dict
AfterCycle(v, outcome) ==
    [Forget(v) EXCEPT !.same = v.same /\ outcome = "stale"]

\* no cycle in flight, the poll timer not armed
NoConc == [cycles |-> <<>>, lock |-> FALSE, timer |-> FALSE]

\* no async_create_event call yet
NoCreate ==
    [cid |-> "", start |-> Dt(0, FALSE, 0), end |-> Dt(0, FALSE, 0),
     submit |-> "none", result |-> "none"]

Init ==
    /\ clock = 0
    /\ remote \in RemoteSet
    /\ client = "none"
    /\ calendars = <<>>
    /\ data = NoData
    /\ pc = "idle"
    /\ caller = "none"
    /\ attempt = 0
    /\ nAttempts = 0
    /\ nDelays = 0
    /\ slept = 0
    /\ setupResult = "none"
    /\ lastErr = NoErr
    /\ ready = FALSE
    /\ authFailed = FALSE
    /\ call = NoCall
    /\ cycle = NoCycle
    /\ pin = [raw |-> NoRaw, ts |-> <<>>]
    /\ pout = <<>>
    /\ cr = NoCreate
    /\ view = NoView
    /\ conc = NoConc
    /\ options = EntryOptions
    /\ entry = NoEntry
    /\ flow = NoFlow

\* time passes, whatever the coordinator is doing
Tick ==
    /\ clock < MaxTime
    /\ clock' = clock + 1
    /\ UNCHANGED <<remote, client, calendars, data, pc, caller, attempt,
                   nAttempts, nDelays, slept, setupResult, lastErr, ready,
                   authFailed, call, cycle, pin, pout, cr,
                   view, conc,
                   options, entry, flow>>

\* entry of _async_update_data: setup runs first only while self.client is None
RefreshCall ==
    /\ pc = "idle"
    /\ call' = [result |-> "running", io |-> FALSE, afterAuth |-> authFailed]
    /\ cycle' = IF client = "none" THEN ResetCycle(cycle)
                ELSE EnterCycle(cycle, clock, options)
    /\ IF client = "none"
       THEN /\ pc' = "attempt"
            /\ caller' = "refresh"
            /\ attempt' = 0
            /\ nAttempts' = 0
            /\ nDelays' = 0
            /\ slept' = 0
            /\ setupResult' = "running"
       ELSE /\ pc' = "fetch"
            /\ caller' = "none"
            /\ attempt' = 0
            /\ nAttempts' = 0
            /\ nDelays' = 0
            /\ slept' = 0
            /\ setupResult' = "none"
    /\ lastErr' = NoErr
    /\ cr' = NoCreate
    /\ view' = Forget(view)
    /\ UNCHANGED <<clock, remote, client, calendars, data, ready, authFailed,
                   pin, pout, conc,
                   options, entry, flow>>

\* one iteration of the retry loop whose _setup_client succeeds
SetupAttemptOk(nameFail) ==
    /\ pc = "attempt"
    /\ nAttempts' = nAttempts + 1
    /\ client' = "set"
    /\ calendars' = Discover(nameFail)
    /\ setupResult' = "ok"
    /\ lastErr' = NoErr
    /\ ready' = TRUE
    /\ pc' = "fetch"
    /\ cycle' = EnterCycle(cycle, clock, options)
    /\ call' = [call EXCEPT !.io = TRUE]
    /\ UNCHANGED <<clock, remote, data, caller, attempt, nDelays, slept,
                   authFailed, pin, pout, cr,
                   view, conc,
                   options, entry, flow>>

\* variant: the last attempt is tested before the authentication marker
AfterFailureExhaustFirst(err, k) ==
    IF k = max_retries - 1 THEN "conn_failed"
    ELSE IF IsAuthError(err) THEN "auth_failed"
    ELSE "retry"

\* variant: the last attempt is tested against max_retries
AfterFailureOffByOne(err, k) ==
    IF IsAuthError(err) THEN "auth_failed"
    ELSE IF k = max_retries THEN "conn_failed"
    ELSE "retry"

\* what the except branch of the retry loop does with the error of an attempt
AfterFailure(err, k) ==
    IF IsAuthError(err) THEN "auth_failed"
    ELSE IF k = max_retries - 1 THEN "conn_failed"
    ELSE "retry"

\* one iteration of the retry loop whose _setup_client raises err, in the
\* constructor of the client ("ctor") or in a request ("request")
SetupAttemptFail(stage, err) ==
    /\ pc = "attempt"
    /\ nAttempts' = nAttempts + 1
    /\ client' = ClientAfter(stage, client)
    /\ LET next == AfterFailure(err, attempt)
           io == call.io \/ stage = "request"
       IN CASE next = "auth_failed" ->
                 /\ setupResult' = "auth_failed"
                 /\ authFailed' = TRUE
                 /\ pc' = "idle"
                 /\ call' = [call EXCEPT !.io = io, !.result = "raised_auth"]
            [] next = "conn_failed" ->
                 /\ setupResult' = "conn_failed"
                 /\ pc' = "idle"
                 /\ call' = [call EXCEPT !.io = io, !.result = "raised_conn"]
                 /\ UNCHANGED authFailed
            [] OTHER ->
                 /\ pc' = "wait"
                 /\ call' = [call EXCEPT !.io = io]
                 /\ UNCHANGED <<setupResult, authFailed>>
    /\ lastErr' = err
    /\ UNCHANGED <<clock, remote, calendars, data, caller, attempt, nDelays,
                   slept, ready, cycle, pin, pout, cr,
                   view, conc,
                   options, entry, flow>>

\* the end of an iteration that neither returned nor raised: the wait
\* before a retry, then the next iteration, or the end of the loop
SetupSleep ==
    /\ pc = "wait"
    /\ IF attempt < max_retries - 1
       THEN /\ nDelays' = nDelays + 1
            /\ slept' = slept + retry_delay
       ELSE UNCHANGED <<nDelays, slept>>
    /\ IF attempt + 1 < max_retries
       THEN /\ attempt' = attempt + 1
            /\ pc' = "attempt"
            /\ UNCHANGED <<setupResult, cycle>>
       ELSE /\ setupResult' = "fell_through"
            /\ pc' = "fetch"
            /\ cycle' = EnterCycle(cycle, clock, options)
            /\ UNCHANGED attempt
    /\ UNCHANGED <<clock, remote, client, calendars, data, caller, nAttempts,
                   lastErr, ready, authFailed, call, pin, pout, cr,
                   view, conc,
                   options, entry, flow>>

\* the try block of _async_update_data, when it ends: _fetch_events in the
\* executor, where the searches of searchFail raise and the name lookups of
\* nameFail fail, or (fault) the job raises before it has done any of that.
\* The job has read days_to_sync from the options and then the clock as
\* schedule rd says, between the time it was entered and now, the last time
\* for last_updated; the call resumes now, no earlier than the job ended,
\* and its except branch reads the clock now for the empty structure.
FetchStep(searchFail, nameFail, fault, rd) ==
    /\ pc = "fetch"
    /\ fault => (searchFail = {} /\ nameFail = {})
    /\ LET fetched == FetchEvents(calendars, remote, searchFail, nameFail, rd)
       IN /\ data' = UpdateData(data, fetched, fault, clock)
          /\ cycle' = EndCycle(cycle, data, calendars, fetched, searchFail,
                               fault, rd)
          /\ view' = AfterCycle(view, cycle'.outcome)
    /\ call' = [call EXCEPT !.result = "returned",
                            !.io = call.io \/ (~fault /\ calendars # <<>>)]
    /\ pc' = "idle"
    /\ UNCHANGED <<clock, remote, client, calendars, caller, attempt, nAttempts,
                   nDelays, slept, setupResult, lastErr, ready, authFailed,
                   pin, pout, cr, conc,
                   options, entry, flow>>

Next ==
    \/ Tick
    \/ RefreshCall
    \/ \E nameFail \in FlakySets : SetupAttemptOk(nameFail)
    \/ \E stage \in {"ctor", "request"}, err \in ErrSignals :
            SetupAttemptFail(stage, err)
    \/ SetupSleep
    \/ \E searchFail \in SUBSET Range(calendars), nameFail \in FlakySets,
          fault \in BOOLEAN, rd \in JobSchedules :
            FetchStep(searchFail, nameFail, fault, rd)

Spec == Init /\ [][Next]_vars

(***************************************************************************)
(* The coordinator on a server that holds records it cannot parse: an      *)
(* event without DTSTART, an event with two DTSTART properties.            *)
(***************************************************************************)
NoStart(u) == [uid |-> u, summary |-> "", dtstart |-> Missing, dtend |-> Missing]
TwoStarts(u) == [uid |-> u, summary |-> "", dtstart |-> RawList, dtend |-> Missing]

BrokenPool ==
    { [cal |-> "A", raw |-> NoStart("a0")],
      [cal |-> "A", raw |-> StartOnly("a2", RawDatetime(1, TRUE, 0))],
      [cal |-> "B", raw |-> TwoStarts("b0")],
      [cal |-> "B", raw |-> StartOnly("b1", RawDatetime(1, TRUE, 0))] }

InitFetch ==
    /\ clock = 0
    /\ remote \in SeqsUpTo(BrokenPool, MaxEvents)
    /\ client = "none"
    /\ calendars = <<>>
    /\ data = NoData
    /\ pc = "idle"
    /\ caller = "none"
    /\ attempt = 0
    /\ nAttempts = 0
    /\ nDelays = 0
    /\ slept = 0
    /\ setupResult = "none"
    /\ lastErr = NoErr
    /\ ready = FALSE
    /\ authFailed = FALSE
    /\ call = NoCall
    /\ cycle = NoCycle
    /\ pin = [raw |-> NoRaw, ts |-> <<>>]
    /\ pout = <<>>
    /\ cr = NoCreate
    /\ view = NoView
    /\ conc = NoConc
    /\ options = EntryOptions
    /\ entry = NoEntry
    /\ flow = NoFlow

NextFetch ==
    \/ Tick
    \/ RefreshCall
    \/ SetupAttemptOk({})
    \/ \E searchFail \in SUBSET (Range(calendars) \cap {"B"}),
          fault \in BOOLEAN, rd \in JobSchedules :
            FetchStep(searchFail, {}, fault, rd)

SpecFetch == InitFetch /\ [][NextFetch]_vars

(***************************************************************************)
(* The coordinator under an entry whose options change (config_flow.py):   *)
(* an options flow shows its form and stores what the schema of that form  *)
(* lets through, also while a fetch job is in flight.                      *)
(***************************************************************************)
\* a timed event that starts at wall-clock w of the local zone
EventAt(u, w) == StartOnly(u, RawDatetime(w, TRUE, LocalOffset))

\* a server with events in the first hour of today, tomorrow, in the last
\* hour of the default window and in the first hour after it
WindowServer ==
    << [cal |-> "A", raw |-> EventAt("d0", 1)],
       [cal |-> "A", raw |-> EventAt("d1", DayLen + 1)],
       [cal |-> "B", raw |-> EventAt("d6", DEFAULT_DAYS_TO_SYNC * DayLen - 1)],
       [cal |-> "B", raw |-> EventAt("d7", DEFAULT_DAYS_TO_SYNC * DayLen)] >>

\* what the options form is sent for days_to_sync: a number, the text of a
\* number, a text that is no number, or nothing; it is sent without
\* auto_refresh, which nothing reads but the form
OptionInputs ==
    {[kind |-> "int", n |-> n] : n \in {0, 1, 31}}
        \cup {[kind |-> "text", n |-> 30], [kind |-> "junk", n |-> 0],
              [kind |-> "omitted", n |-> 0]}

\* the schema of a form, applied to the input: vol.Optional(days_to_sync,
\* default): vol.All(vol.Coerce(int), vol.Range(min=1, max=30)) and
\* vol.Optional(auto_refresh, default): bool, the defaults being the ones
\* the form was built with
OptionValid(input, form) ==
    IF input.kind = "omitted"
    THEN [ok |-> TRUE, n |-> form.days, auto |-> form.auto]
    ELSE IF input.kind = "junk"
    THEN [ok |-> FALSE, n |-> 0, auto |-> form.auto]
    ELSE [ok |-> input.n >= 1 /\ input.n <= 30, n |-> input.n,
          auto |-> form.auto]

\* no options flow has shown its form.  The forms that flows now show are
\* kept as the set of their defaults: any number of flows may show a form
\* with the same defaults.

\* async_step_init without user input: a flow builds its form, with the
\* options of the entry at that time as the defaults, and shows it
OptionsForm ==
    /\ flow' = [forms |-> flow.forms \cup {[days |-> DaysToSync(options),
                                             auto |-> AutoRefresh(options)]}]
    /\ UNCHANGED <<clock, remote, client, calendars, data, pc, caller, attempt,
                   nAttempts, nDelays, slept, setupResult, lastErr, ready,
                   authFailed, call, cycle, pin, pout, cr, view, conc, options,
                   entry>>

\* async_step_init with user input: the host applies the schema of the form
\* that was shown and, when it passes, the flow ends and the result is
\* stored as the options of the entry; else the form stays.  A fetch job in
\* flight may read the stored options from now on.  alone tells whether no
\* other flow shows a form with the same defaults.
OptionsSubmit(form, input, alone) ==
    /\ form \in flow.forms
    /\ LET v == OptionValid(input, form)
       IN IF v.ok
          THEN /\ options' = [days_to_sync |-> v.n, auto_refresh |-> v.auto]
               /\ flow' = [forms |-> IF alone THEN flow.forms \ {form}
                                     ELSE flow.forms]
          ELSE UNCHANGED <<options, flow>>
    /\ cycle' = IF pc \in {"fetch", "create_refresh"}
                THEN [cycle EXCEPT !.seen = Store(@, options', clock)]
                ELSE cycle
    /\ UNCHANGED <<clock, remote, client, calendars, data, pc, caller, attempt,
                   nAttempts, nDelays, slept, setupResult, lastErr, ready,
                   authFailed, call, pin, pout, cr, view, conc, entry>>

\* an entry as the config flow creates it, or one stored without the option
InitWindow ==
    /\ clock = 0
    /\ remote = WindowServer
    /\ client = "none"
    /\ calendars = <<>>
    /\ data = NoData
    /\ pc = "idle"
    /\ caller = "none"
    /\ attempt = 0
    /\ nAttempts = 0
    /\ nDelays = 0
    /\ slept = 0
    /\ setupResult = "none"
    /\ lastErr = NoErr
    /\ ready = FALSE
    /\ authFailed = FALSE
    /\ call = NoCall
    /\ cycle = NoCycle
    /\ pin = [raw |-> NoRaw, ts |-> <<>>]
    /\ pout = <<>>
    /\ cr = NoCreate
    /\ view = NoView
    /\ conc = NoConc
    /\ options \in {EntryOptions, <<>>}
    /\ entry = NoEntry
    /\ flow = [forms |-> {}]

NextWindow ==
    \/ Tick
    \/ RefreshCall
    \/ SetupAttemptOk({})
    \/ \E searchFail \in SUBSET (Range(calendars) \cap {"B"}),
          fault \in BOOLEAN, rd \in JobSchedules :
            FetchStep(searchFail, {}, fault, rd)
    \/ OptionsForm
    \/ \E form \in flow.forms, input \in OptionInputs, alone \in BOOLEAN :
            OptionsSubmit(form, input, alone)

SpecWindow == InitWindow /\ [][NextWindow]_vars

(***************************************************************************)
(* The setup of the config entry (__init__.py): async_setup_entry makes a  *)
(* coordinator, awaits its first refresh and tells the host how it went.   *)
(* The host sets up again, later, an entry that was not ready.             *)
(***************************************************************************)
\* async_setup_entry up to the first refresh: a new coordinator, whose
\* client is None, starts its first refresh with the connection setup
SetupEntryStart ==
    /\ pc = "idle"
    /\ entry.state \in {"not_loaded", "setup_retry"}
    /\ entry' = [state |-> "setting_up"]
    /\ client' = "none"
    /\ calendars' = <<>>
    /\ data' = NoData
    /\ call' = [result |-> "running", io |-> FALSE, afterAuth |-> FALSE]
    /\ cycle' = NoCycle
    /\ pc' = "attempt"
    /\ caller' = "refresh"
    /\ attempt' = 0
    /\ nAttempts' = 0
    /\ nDelays' = 0
    /\ slept' = 0
    /\ setupResult' = "running"
    /\ lastErr' = NoErr
    /\ ready' = FALSE
    /\ authFailed' = FALSE
    /\ UNCHANGED <<clock, remote, pin, pout, cr, view, conc, options, flow>>

\* what async_setup_entry tells the host: every exception of the first
\* refresh is raised again as ConfigEntryNotReady, for which the host
\* schedules another setup
SetupEntryOutcome(result) ==
    IF result = "returned" THEN "loaded" ELSE "setup_retry"

\* async_setup_entry after the first refresh: an exception ends the setup;
\* else the coordinator is stored and the platforms are forwarded, and the
\* setup of the calendar platform awaits async_config_entry_first_refresh
\* once more: a second refresh cycle, on the client that is set
SetupEntryEnd ==
    /\ pc = "idle"
    /\ entry.state = "setting_up"
    /\ IF call.result = "returned"
       THEN /\ entry' = [state |-> "forwarding"]
            /\ call' = [result |-> "running", io |-> FALSE,
                        afterAuth |-> authFailed]
            /\ cycle' = EnterCycle(cycle, clock, options)
            /\ pc' = "fetch"
       ELSE /\ entry' = [state |-> SetupEntryOutcome(call.result)]
            /\ UNCHANGED <<call, cycle, pc>>
    /\ UNCHANGED <<clock, remote, client, calendars, data, caller, attempt,
                   nAttempts, nDelays, slept, setupResult, lastErr, ready,
                   authFailed, pin, pout, cr, view, conc, options, flow>>

\* the platforms are set up: async_setup_entry registers the services and
\* returns True
SetupEntryLoaded ==
    /\ pc = "idle"
    /\ entry.state = "forwarding"
    /\ entry' = [state |-> SetupEntryOutcome(call.result)]
    /\ UNCHANGED <<clock, remote, client, calendars, data, pc, caller, attempt,
                   nAttempts, nDelays, slept, setupResult, lastErr, ready,
                   authFailed, call, cycle, pin, pout, cr, view, conc, options, flow>>

InitEntry ==
    /\ clock = 0
    /\ remote \in RemoteSet
    /\ client = "none"
    /\ calendars = <<>>
    /\ data = NoData
    /\ pc = "idle"
    /\ caller = "none"
    /\ attempt = 0
    /\ nAttempts = 0
    /\ nDelays = 0
    /\ slept = 0
    /\ setupResult = "none"
    /\ lastErr = NoErr
    /\ ready = FALSE
    /\ authFailed = FALSE
    /\ call = NoCall
    /\ cycle = NoCycle
    /\ pin = [raw |-> NoRaw, ts |-> <<>>]
    /\ pout = <<>>
    /\ cr = NoCreate
    /\ view = NoView
    /\ conc = NoConc
    /\ options = EntryOptions
    /\ entry = [state |-> "not_loaded"]
    /\ flow = NoFlow

NextEntry ==
    \/ Tick
    \/ SetupEntryStart
    \/ SetupAttemptOk({})
    \/ \E stage \in {"ctor", "request"}, err \in ErrSignals :
            SetupAttemptFail(stage, err)
    \/ SetupSleep
    \/ \E fault \in BOOLEAN, rd \in JobSchedules :
            FetchStep({}, {}, fault, rd)
    \/ SetupEntryEnd
    \/ SetupEntryLoaded

SpecEntry == InitEntry /\ [][NextEntry]_vars

(***************************************************************************)
(* The config flow (config_flow.py): the user step tests the connection    *)
(* and makes the entry, which the host then sets up.                       *)
(***************************************************************************)
ERROR_AUTH_FAILED == "Authentication failed"
ERROR_CONNECTION_FAILED == "Connection failed"

\* variant: the word is matched as it is written
FlowIsAuthErrorCaseSensitive(err) == err.has401 \/ err.authWord = "lower"

\* the test of validate_input on the error of the connection test:
\* "401" in str(exc) or "authentication" in str(exc).lower()
FlowIsAuthError(err) == err.has401 \/ err.authWord # "none"

\* validate_input: the connection test returns, or its error is raised
\* again as InvalidAuth or as CannotConnect
ValidateInput(test, err) ==
    IF test = "ok" THEN "info"
    ELSE IF FlowIsAuthError(err) THEN "InvalidAuth" ELSE "CannotConnect"

\* async_step_user with user input: an error of the validation shows the
\* form again with its message; else the flow aborts when the account is
\* configured already, and creates the entry when it is not
StepUser(test, err) ==
    /\ test = "ok" => err = NoErr
    /\ LET v == ValidateInput(test, err)
       IN CASE v = "CannotConnect" ->
                 /\ flow' = [result |-> "form", base |-> ERROR_CONNECTION_FAILED,
                             test |-> test, err |-> err]
                 /\ entry' = entry
            [] v = "InvalidAuth" ->
                 /\ flow' = [result |-> "form", base |-> ERROR_AUTH_FAILED,
                             test |-> test, err |-> err]
                 /\ entry' = entry
            [] OTHER ->
                 IF entry.state # "none"
                 THEN /\ flow' = [result |-> "abort", base |-> "",
                                  test |-> test, err |-> err]
                      /\ entry' = entry
                 ELSE /\ flow' = [result |-> "create_entry", base |-> "",
                                  test |-> test, err |-> err]
                      /\ entry' = [state |-> "not_loaded"]
    /\ UNCHANGED <<clock, remote, client, calendars, data, pc, caller, attempt,
                   nAttempts, nDelays, slept, setupResult, lastErr, ready,
                   authFailed, call, cycle, pin, pout, cr, view, conc, options>>

\* no entry yet
InitFlow ==
    /\ clock = 0
    /\ remote \in RemoteSet
    /\ client = "none"
    /\ calendars = <<>>
    /\ data = NoData
    /\ pc = "idle"
    /\ caller = "none"
    /\ attempt = 0
    /\ nAttempts = 0
    /\ nDelays = 0
    /\ slept = 0
    /\ setupResult = "none"
    /\ lastErr = NoErr
    /\ ready = FALSE
    /\ authFailed = FALSE
    /\ call = NoCall
    /\ cycle = NoCycle
    /\ pin = [raw |-> NoRaw, ts |-> <<>>]
    /\ pout = <<>>
    /\ cr = NoCreate
    /\ view = NoView
    /\ conc = NoConc
    /\ options = EntryOptions
    /\ entry = NoEntry
    /\ flow = NoFlow

NextFlow ==
    \/ \E err \in ErrSignals : StepUser("raised", err)
    \/ StepUser("ok", NoErr)
    \/ SetupEntryStart
    \/ SetupAttemptOk({})
    \/ \E stage \in {"ctor", "request"}, err \in ErrSignals :
            SetupAttemptFail(stage, err)
    \/ SetupSleep
    \/ \E fault \in BOOLEAN, rd \in JobSchedules :
            FetchStep({}, {}, fault, rd)
    \/ SetupEntryEnd
    \/ SetupEntryLoaded

SpecFlow == InitFlow /\ [][NextFlow]_vars

(***************************************************************************)
(* The parser on its own: one raw event, parsed once.                      *)
(***************************************************************************)
RawValues ==
    {Missing, RawNone, RawTextBad}
        \cup {RawDate(d) : d \in 0..1}
        \cup {RawDatetime(w, TRUE, o) : w \in 0..(MaxTime + 1), o \in {0, LocalOffset}}
        \cup {RawDatetime(w, FALSE, 0) : w \in 0..(MaxTime + 1)}
        \cup {RawTextIso(w, TRUE, o) : w \in 0..1, o \in {0, LocalOffset}}
        \cup {RawTextIso(w, FALSE, 0) : w \in 0..1}
        \cup {RawTextDate(d) : d \in 0..1}
        \cup {RawTextDateJunk(d) : d \in 0..1}

RawEvents ==
    [uid : {"u"}, summary : {""}, dtstart : RawValues, dtend : RawValues]

\* attendee and organizer values: with a CN, with params but no CN, and a
\* plain value without params
People ==
    {Person("t1", "cn", "N1"), Person("t2", "empty", ""),
     Person("t3", "none", "")}

\* raw events with an ATTENDEE property (one value, or a list of up to
\* MaxEvents values) or none, and with an ORGANIZER or none
PeopleEvents ==
    [uid : {"u"}, summary : {""}, dtstart : {RawDatetime(0, TRUE, 0)},
     dtend : {Missing},
     attendee : {Absent} \cup {Single(p) : p \in People}
                \cup {Listed(ps) : ps \in SeqsUpTo(People, MaxEvents)},
     organizer : {Absent} \cup {Single(p) : p \in People}]

InitParse ==
    /\ clock = 0
    /\ remote = <<>>
    /\ client = "none"
    /\ calendars = <<>>
    /\ data = NoData
    /\ pc = "parse"
    /\ caller = "none"
    /\ attempt = 0
    /\ nAttempts = 0
    /\ nDelays = 0
    /\ slept = 0
    /\ setupResult = "none"
    /\ lastErr = NoErr
    /\ ready = FALSE
    /\ authFailed = FALSE
    /\ call = NoCall
    /\ cycle = NoCycle
    /\ pin \in [raw : RawEvents \cup PeopleEvents,
                 ts : Readings(0, MaxTime, 2)]
    /\ pout = <<>>
    /\ cr = NoCreate
    /\ view = NoView
    /\ conc = NoConc
    /\ options = EntryOptions
    /\ entry = NoEntry
    /\ flow = NoFlow

\* _parse_event applied to the raw event, with the readings pin.ts of the
\* clock for its start and its end
Parse ==
    /\ pc = "parse"
    /\ pout' = ParseEvent(pin.raw, "A", ServerName("A"), pin.ts)
    /\ pc' = "parsed"
    /\ UNCHANGED <<clock, remote, client, calendars, data, caller, attempt,
                   nAttempts, nDelays, slept, setupResult, lastErr, ready,
                   authFailed, call, cycle, pin, cr,
                   view, conc,
                   options, entry, flow>>

NextParse == Parse

SpecParse == InitParse /\ [][NextParse]_vars

(***************************************************************************)
(* async_create_event: the write path.                                     *)
(***************************************************************************)
\* the calendar ids, the title and the start/end pairs of the create calls
CreateCals == {"A", "B"}

CreateTitle == "T"

CreateSpans ==
    { <<Dt(0 - 2, TRUE, 0), Dt(0 - 1, TRUE, 0)>>,
      <<Dt(2, FALSE, 0), Dt(3, FALSE, 0)>> }

\* the uid of _create_event_sync: the timestamp of the call
UidAt(clk) == ToString(clk) \o "@homeassistant"

\* the VEVENT built by _create_event_sync
CreateRecord(title, s, e, clk) ==
    [uid |-> UidAt(clk), summary |-> title,
     dtstart |-> RawDatetime(s.wall, s.aware, s.off),
     dtend |-> RawDatetime(e.wall, e.aware, e.off)]

\* calendar.save_event on the server: the resource is named after the uid,
\* so an event of that calendar with the same uid is replaced
SaveEvent(srv, c, rec) ==
    Append(SelectSeq(srv, LAMBDA x : ~(x.cal = c /\ x.raw.uid = rec.uid)),
           [cal |-> c, raw |-> rec])

\* variant: the calendar id is not looked up
KnownCalendarAny(cid, cals) == TRUE

\* calendar_id in self.calendars
KnownCalendar(cid, cals) == cid \in Range(cals)

\* variant: the refresh is requested whatever the job did
AfterSubmitAlways(outcome, busy) ==
    IF busy THEN "idle" ELSE "create_refresh"

\* where async_create_event goes after the executor job: the refresh is
\* requested in the try block, after the job and only when it did not
\* raise.  async_request_refresh is the host's: it runs the refresh at once
\* unless the host is busy with a requested refresh or has run one a moment
\* ago (busy); then the request returns at once, and a refresh comes later
\* or not at all
AfterSubmit(outcome, busy) ==
    IF outcome = "ok" /\ ~busy THEN "create_refresh" ELSE "idle"

\* variant: a refresh that builds no Snapshot makes the call fail
CreateReturnTransactional(submitOk, refreshOutcome) ==
    IF submitOk /\ refreshOutcome \in {"none", "built"} THEN "true" ELSE "false"

\* the value async_create_event returns: True at the end of the try block,
\* False from the except branch.  The refresh raises nothing into the try
\* block, however its cycle ends.
CreateReturn(submitOk, refreshOutcome) ==
    IF submitOk THEN "true" ELSE "false"

\* async_create_event up to the executor job: an unknown calendar id is
\* logged and the call is over
CreateCall(cid, span) ==
    /\ pc = "idle"
    /\ IF KnownCalendar(cid, calendars)
       THEN /\ Len(remote) < MaxEvents
            /\ pc' = "submit"
            /\ cr' = [cid |-> cid, start |-> span[1], end |-> span[2],
                      submit |-> "none", result |-> "running"]
       ELSE /\ pc' = "idle"
            /\ cr' = [cid |-> cid, start |-> span[1], end |-> span[2],
                      submit |-> "none", result |-> "false"]
    /\ cycle' = ResetCycle(cycle)
    /\ view' = Forget(view)
    /\ UNCHANGED <<clock, remote, client, calendars, data, caller, attempt,
                   nAttempts, nDelays, slept, setupResult, lastErr, ready,
                   authFailed, call, pin, pout,
                   conc,
                   options, entry, flow>>

\* _create_event_sync in the executor: the event is saved ("ok"), or
\* save_event raises with the event not stored ("error") or stored all the
\* same ("error_stored"); then the refresh request, which the host runs at
\* once or, when busy, does not
CreateSubmit(outcome, busy) ==
    /\ pc = "submit"
    /\ remote' = IF outcome = "error" THEN remote
                 ELSE SaveEvent(remote, cr.cid,
                        CreateRecord(CreateTitle, cr.start, cr.end, clock))
    /\ pc' = AfterSubmit(outcome, busy)
    /\ cycle' = IF pc' = "create_refresh"
                THEN EnterCycle(cycle, clock, options) ELSE cycle
    /\ cr' = [cr EXCEPT !.submit = outcome,
                        !.result = IF pc' = "create_refresh" THEN "running"
                                   ELSE CreateReturn(outcome = "ok", "none")]
    /\ UNCHANGED <<clock, client, calendars, data, caller, attempt, nAttempts,
                   nDelays, slept, setupResult, lastErr, ready, authFailed,
                   call, pin, pout, view, conc,
                   options, entry, flow>>

\* await self.async_request_refresh() when the host runs the refresh, and
\* the return: the refresh runs _async_update_data (the client is set, so
\* no setup) and stores its value
CreateRefresh(searchFail, nameFail, fault, rd) ==
    /\ pc = "create_refresh"
    /\ fault => (searchFail = {} /\ nameFail = {})
    /\ LET fetched == FetchEvents(calendars, remote, searchFail, nameFail, rd)
       IN /\ data' = UpdateData(data, fetched, fault, clock)
          /\ cycle' = EndCycle(cycle, data, calendars, fetched, searchFail,
                               fault, rd)
          /\ cr' = [cr EXCEPT !.result = CreateReturn(TRUE, cycle'.outcome)]
          /\ view' = AfterCycle(view, cycle'.outcome)
    /\ call' = [result |-> "returned", io |-> ~fault, afterAuth |-> authFailed]
    /\ pc' = "idle"
    /\ UNCHANGED <<clock, remote, client, calendars, caller, attempt, nAttempts,
                   nDelays, slept, setupResult, lastErr, ready, authFailed,
                   pin, pout, conc,
                   options, entry, flow>>

\* the coordinator with its write path, on a server that holds fewer events
\* than it can and answers the connection setup
InitCreate == Init /\ Len(remote) < MaxEvents

NextCreate ==
    \/ Tick
    \/ RefreshCall
    \/ \E nameFail \in FlakySets : SetupAttemptOk(nameFail)
    \/ \E searchFail \in SUBSET (Range(calendars) \cap CreateCals),
          fault \in BOOLEAN, rd \in JobSchedules :
            FetchStep(searchFail, {}, fault, rd)
    \/ \E cid \in CreateCals, span \in CreateSpans : CreateCall(cid, span)
    \/ \E outcome \in {"ok", "error", "error_stored"}, busy \in BOOLEAN :
            CreateSubmit(outcome, busy)
    \/ \E searchFail \in SUBSET (Range(calendars) \cap CreateCals),
          fault \in BOOLEAN, rd \in JobSchedules :
            CreateRefresh(searchFail, {}, fault, rd)

SpecCreate == InitCreate /\ [][NextCreate]_vars

\* the write path on a server that saves every event it is sent: all the
\* events of the server with a uid of _create_event_sync were submitted by
\* calls that returned True
NextSaved ==
    \/ Tick
    \/ RefreshCall
    \/ SetupAttemptOk({})
    \/ \E fault \in BOOLEAN, rd \in JobSchedules :
            FetchStep({}, {}, fault, rd)
    \/ \E cid \in CreateCals, span \in CreateSpans : CreateCall(cid, span)
    \/ \E busy \in BOOLEAN : CreateSubmit("ok", busy)
    \/ \E fault \in BOOLEAN, rd \in JobSchedules :
            CreateRefresh({}, {}, fault, rd)

SpecSaved == InitCreate /\ [][NextSaved]_vars

(***************************************************************************)
(* The calendar entity (calendar.py): views computed from coordinator.data.*)
(* A view returns its result and the Snapshot object as the call leaves    *)
(* it.                                                                     *)
(***************************************************************************)
\* the entities: the unified one and the one of calendar C
ViewCals == {"all", "C"}

\* the ranges async_get_events is asked for
ViewRanges ==
    { <<Dt(0, TRUE, 0), Dt(2, TRUE, 0)>>,
      <<Dt(1, TRUE, 0), Dt(3, TRUE, 0)>> }

\* variant: every entity gets the whole list
GetFilteredEventsUnfiltered(d, cid) ==
    IF d = NoData \/ "events" \notin DOMAIN d
    THEN [list |-> <<>>, shared |-> FALSE]
    ELSE [list |-> d.events, shared |-> cid = "all"]

\* _get_filtered_events: for the unified entity the events list of the
\* Snapshot itself (shared), else a new list with the events of the calendar
GetFilteredEvents(d, cid) ==
    IF d = NoData \/ "events" \notin DOMAIN d
    THEN [list |-> <<>>, shared |-> FALSE]
    ELSE IF cid = "all"
         THEN [list |-> d.events, shared |-> TRUE]
         ELSE [list |-> SelectSeq(d.events, LAMBDA e : e.calendar_id = cid),
               shared |-> FALSE]

\* _create_calendar_event
CalendarEventOf(e) ==
    [uid |-> e.uid, summary |-> e.summary, start |-> e.start, end |-> e.end]

\* the overlap test of async_get_events raises TypeError on a naive value
OverlapRaises(e, s, t) ==
    \/ ~Comparable(e.start, t)
    \/ DtLess(e.start, t) /\ ~Comparable(e.end, s)

RECURSIVE MapEvents(_)
MapEvents(evs) ==
    IF evs = <<>> THEN <<>>
    ELSE <<CalendarEventOf(Head(evs))>> \o MapEvents(Tail(evs))

\* variant: the filtered list is cut down and sorted in place
AsyncGetEventsInPlace(d, cid, s, t) ==
    IF d = NoData THEN [raised |-> FALSE, result |-> <<>>, snapshot |-> d]
    ELSE LET src == GetFilteredEvents(d, cid)
             kept == SelectSeq(src.list, LAMBDA e :
                        DtLess(e.start, t) /\ DtLess(s, e.end))
         IN IF \E i \in 1..Len(src.list) : OverlapRaises(src.list[i], s, t)
            THEN [raised |-> TRUE, result |-> <<>>, snapshot |-> d]
            ELSE [raised |-> FALSE, result |-> MapEvents(SortEvents(kept)),
                  snapshot |-> IF src.shared
                               THEN [d EXCEPT !.events = SortEvents(kept)]
                               ELSE d]

\* async_get_events: the events that overlap [s, t) are appended to a new
\* list, which sorted() copies; the Snapshot is read only
AsyncGetEvents(d, cid, s, t) ==
    IF d = NoData THEN [raised |-> FALSE, result |-> <<>>, snapshot |-> d]
    ELSE LET src == GetFilteredEvents(d, cid)
             kept == SelectSeq(src.list, LAMBDA e :
                        DtLess(e.start, t) /\ DtLess(s, e.end))
         IN IF \E i \in 1..Len(src.list) : OverlapRaises(src.list[i], s, t)
            THEN [raised |-> TRUE, result |-> <<>>, snapshot |-> d]
            ELSE [raised |-> FALSE, result |-> MapEvents(SortEvents(kept)),
                  snapshot |-> d]

\* the event property: the first event that starts after now, else the first
\* that is going on; a comparison with a naive value raises on the way
NextEvent(d, cid, clk) ==
    LET evs == GetFilteredEvents(d, cid).list
        now == Now(clk)
        n == Len(evs)
        upcoming == {i \in 1..n : Comparable(evs[i].start, now)
                                   /\ DtLess(now, evs[i].start)}
        firstUp == IF upcoming = {} THEN n + 1
                   ELSE CHOOSE i \in upcoming : \A j \in upcoming : i <= j
        ongoing == {i \in 1..n : Comparable(evs[i].end, now)
                                  /\ DtLeq(now, evs[i].end)}
        firstOn == IF ongoing = {} THEN n + 1
                   ELSE CHOOSE i \in ongoing : \A j \in ongoing : i <= j
    IN IF \E i \in 1..n : i < firstUp /\ ~Comparable(evs[i].start, now)
       THEN [raised |-> TRUE, result |-> <<>>, snapshot |-> d]
       ELSE IF firstUp <= n
            THEN [raised |-> FALSE, result |-> <<CalendarEventOf(evs[firstUp])>>,
                  snapshot |-> d]
            ELSE IF \E i \in 1..n : i < firstOn /\ ~Comparable(evs[i].end, now)
                 THEN [raised |-> TRUE, result |-> <<>>, snapshot |-> d]
                 ELSE [raised |-> FALSE,
                       result |-> IF firstOn <= n
                                  THEN <<CalendarEventOf(evs[firstOn])>>
                                  ELSE <<>>,
                       snapshot |-> d]

\* a consumer reads coordinator.data and keeps the reference; like every
\* read of the entities it may come while a refresh or a create call is
\* waiting for its executor job
HandOut ==
    /\ data # NoData
    /\ view' = [view EXCEPT !.held = data, !.at = data, !.same = TRUE]
    /\ UNCHANGED <<clock, remote, client, calendars, data, pc, caller, attempt,
                   nAttempts, nDelays, slept, setupResult, lastErr, ready,
                   authFailed, call, cycle, pin, pout, cr, conc,
                   options, entry, flow>>

\* the object self.data refers to is left as res.snapshot by a view; the
\* consumer's object is that object while it is still self.data
AfterView(v, res) ==
    [v EXCEPT !.held = IF v.same THEN res.snapshot ELSE v.held,
              !.out = [raised |-> res.raised, result |-> res.result]]

\* the list _get_filtered_events gave the view of entity cid, with the view
\* that asked for it and the time it was asked at; a view of an integration
\* without data returns before it asks for the list
Filtered(v, d, cid, kind, clk, rng) ==
    IF d = NoData THEN v
    ELSE [v EXCEPT !.cid = cid, !.list = GetFilteredEvents(d, cid).list,
                   !.kind = kind, !.now = clk, !.rng = rng]

\* the host asks a calendar entity for the events of a range
ViewGetEvents(cid, rng) ==
    /\ LET res == AsyncGetEvents(data, cid, rng[1], rng[2])
       IN /\ data' = res.snapshot
          /\ view' = Filtered(AfterView(view, res), data, cid, "range", 0, rng)
    /\ UNCHANGED <<clock, remote, client, calendars, pc, caller, attempt,
                   nAttempts, nDelays, slept, setupResult, lastErr, ready,
                   authFailed, call, cycle, pin, pout, cr, conc,
                   options, entry, flow>>

\* the host reads the event property of a calendar entity
ViewEvent(cid) ==
    /\ LET res == NextEvent(data, cid, clock)
       IN /\ data' = res.snapshot
          /\ view' = Filtered(AfterView(view, res), data, cid, "event", clock, <<>>)
    /\ UNCHANGED <<clock, remote, client, calendars, pc, caller, attempt,
                   nAttempts, nDelays, slept, setupResult, lastErr, ready,
                   authFailed, call, cycle, pin, pout, cr, conc,
                   options, entry, flow>>

(***************************************************************************)
(* Refresh cycles started by the host: the poll timer of update_interval   *)
(* and the refresh requests of the two services.  _async_update_data has   *)
(* no lock and no in-flight flag of its own; the host runs requested       *)
(* refreshes one at a time (a request made while one runs is dropped) and  *)
(* stops the poll timer while a cycle runs, re-arming it when one ends.    *)
(* The timer and the request lock are the host's; they are modelled by     *)
(* what the host's coordinator class does with them.  A cycle ends when    *)
(* its call resumes; its job has read the clock at any times since it was  *)
(* entered, so that a value read early may be stored over one read late.   *)
(***************************************************************************)
MaxInFlight == 2    \* cycles in flight at a time

\* the job of a refresh, run in the executor at time clk: _fetch_events
\* reads the server srv, or fails as a whole (fault)
FetchJob(srv, fault, clk) ==
    IF fault THEN [raised |-> TRUE, value |-> NoData]
    ELSE FetchEvents(Discover({}), srv, {}, {}, At(srv, clk, EntryOptions))

\* the coordinator after its first refresh, the poll timer armed
InitConc ==
    /\ options = EntryOptions
    /\ entry = NoEntry
    /\ flow = NoFlow
    /\ clock = 0
    /\ remote \in RemoteSet
    /\ client = "set"
    /\ calendars = Discover({})
    /\ data = UpdateData(NoData, FetchJob(remote, FALSE, 0), FALSE, 0)
    /\ pc = "idle"
    /\ caller = "refresh"
    /\ attempt = 0
    /\ nAttempts = 1
    /\ nDelays = 0
    /\ slept = 0
    /\ setupResult = "ok"
    /\ lastErr = NoErr
    /\ ready = TRUE
    /\ authFailed = FALSE
    /\ call = [result |-> "returned", io |-> TRUE, afterAuth |-> FALSE]
    /\ cycle = EndCycle(NoCycle, NoData, calendars, FetchJob(remote, FALSE, 0), {},
                        FALSE, At(remote, 0, options))
    /\ pin = [raw |-> NoRaw, ts |-> <<>>]
    /\ pout = <<>>
    /\ cr = NoCreate
    /\ view = NoView
    /\ conc = [cycles |-> <<>>, lock |-> FALSE, timer |-> TRUE]

\* the poll timer fires: the host enters _async_update_data
PollFire ==
    /\ conc.timer
    /\ Len(conc.cycles) < MaxInFlight
    /\ conc' = [conc EXCEPT !.cycles = Append(conc.cycles,
                                        [src |-> "poll", entered |-> clock]),
                            !.timer = FALSE]
    /\ UNCHANGED <<clock, remote, client, calendars, data, pc, caller, attempt,
                   nAttempts, nDelays, slept, setupResult, lastErr, ready,
                   authFailed, call, cycle, pin, pout, cr, view,
                   options, entry, flow>>

\* coordinator.async_request_refresh() from the refresh_calendar service or
\* from async_create_event: dropped while a requested refresh runs, else the
\* host enters _async_update_data
RequestRefresh(src) ==
    /\ Len(conc.cycles) < MaxInFlight
    /\ conc' = IF conc.lock THEN conc
               ELSE [cycles |-> Append(conc.cycles,
                                       [src |-> src, entered |-> clock]),
                     lock |-> TRUE,
                     timer |-> FALSE]
    /\ call' = [call EXCEPT !.result = src]    \* the last request made
    /\ UNCHANGED <<clock, remote, client, calendars, data, pc, caller, attempt,
                   nAttempts, nDelays, slept, setupResult, lastErr, ready,
                   authFailed, cycle, pin, pout, cr, view,
                   options, entry, flow>>

\* the i-th cycle in flight ends: _async_update_data returns and the host
\* stores the value, releases the request lock and re-arms the poll timer
CycleEnd(i, searchFail, fault, rd) ==
    /\ i \in 1..Len(conc.cycles)
    /\ fault => searchFail = {}
    /\ LET fetched == FetchEvents(calendars, remote, searchFail, {}, rd)
       IN /\ data' = UpdateData(data, fetched, fault, clock)
          /\ cycle' = EndCycle([cycle EXCEPT !.entered = conc.cycles[i].entered],
                               data, calendars, fetched, searchFail, fault, rd)
          /\ view' = AfterCycle(view, cycle'.outcome)
    /\ conc' = [cycles |-> SubSeq(conc.cycles, 1, i - 1)
                            \o SubSeq(conc.cycles, i + 1, Len(conc.cycles)),
                lock |-> conc.lock /\ conc.cycles[i].src = "poll",
                timer |-> TRUE]
    /\ call' = [call EXCEPT !.result = "returned"]
    /\ UNCHANGED <<clock, remote, client, calendars, pc, caller, attempt,
                   nAttempts, nDelays, slept, setupResult, lastErr, ready,
                   authFailed, pin, pout, cr,
                   options, entry, flow>>

NextConc ==
    \/ Tick
    \/ PollFire
    \/ \E src \in {"service", "create"} : RequestRefresh(src)
    \/ \E i \in 1..Len(conc.cycles), searchFail \in SUBSET {"B"},
          fault \in BOOLEAN :
            \E rd \in Schedules(remote, conc.cycles[i].entered, clock,
                               Held(options, conc.cycles[i].entered)) :
                CycleEnd(i, searchFail, fault, rd)

SpecConc == InitConc /\ [][NextConc]_vars

(***************************************************************************)
(* Properties.                                                             *)
(***************************************************************************)
\* an error text with the authentication marker: "401", or the word
\* "authentication" in any case
AuthClassified(err) == err.has401 \/ err.authWord \in {"lower", "upper"}

\* C1 -- Auth short-circuit: when an attempt of _async_setup fails with an
\* error classified as authentication, the run is over at once with the
\* authentication-failed outcome: no attempt and no delay follows it, so the
\* attempts made are the ones up to it (one, when it is the first) and the
\* delays are the ones before it.
C1_AuthShortCircuit ==
    (lastErr # NoErr /\ AuthClassified(lastErr)) =>
        /\ pc = "idle"
        /\ setupResult = "auth_failed"
        /\ call.result = "raised_auth"
        /\ nAttempts = attempt + 1
        /\ nDelays = attempt
        /\ (attempt = 0 => nAttempts = 1 /\ nDelays = 0 /\ slept = 0)

\* C1 witness: the first attempt failed with "AUTHENTICATION" in upper case
\* and setup ended after that single attempt
C1_Witness ==
    /\ lastErr = [has401 |-> FALSE, authWord |-> "upper"]
    /\ setupResult = "auth_failed"
    /\ nAttempts = 1
    /\ nDelays = 0

\* C2 -- Retry budget: a run of _async_setup makes at most 3 attempts and at
\* most 2 delays of 5 time units, a delay only between two attempts; a run
\* that ends on a generic failure has made exactly 3 attempts and ends in the
\* connection failure; a successful attempt is the last one of its run.
C2_RetryBudget ==
    /\ nAttempts <= 3
    /\ nDelays <= 2
    /\ slept = 5 * nDelays
    /\ pc = "attempt" => nDelays = nAttempts /\ nAttempts = attempt
    /\ pc = "wait" => nDelays = nAttempts - 1 /\ nAttempts < 3
    /\ (pc \in {"idle", "fetch"} /\ nAttempts > 0) => nDelays = nAttempts - 1
    /\ (pc = "idle" /\ lastErr # NoErr /\ ~AuthClassified(lastErr)) =>
            /\ nAttempts = 3
            /\ setupResult = "conn_failed"
            /\ call.result = "raised_conn"
    /\ setupResult = "ok" =>
            /\ pc \in {"fetch", "idle"}
            /\ nAttempts = attempt + 1
            /\ lastErr = NoErr
    /\ setupResult # "fell_through"

\* C2 witness: three generic failures, two delays, the connection failure
C2_Witness ==
    /\ setupResult = "conn_failed"
    /\ ~AuthClassified(lastErr)
    /\ nAttempts = 3
    /\ nDelays = 2
    /\ slept = 10

EventsOf(evs, c) == SelectSeq(evs, LAMBDA e : e.calendar_id = c)

\* C3 -- Partial failure: after a fetch cycle over the known calendars in
\* which the searches of some calendars raised, refresh has returned, the
\* served Snapshot lists exactly those calendars as failed and holds the
\* events of every other calendar.
C3_PartialFailure ==
    (/\ pc = "idle"
     /\ cycle.outcome # "none"
     /\ ~cycle.fault
     /\ cycle.searchFail # {}
     /\ cycle.searchFail # Range(calendars)) =>
        /\ call.result = "returned"
        /\ "failed_calendars" \in DOMAIN data
        /\ Range(data.failed_calendars) = cycle.searchFail
        /\ \A c \in Range(calendars) \ cycle.searchFail :
              {e.uid : e \in Range(EventsOf(data.events, c))}
                  = {r.uid : r \in Range(Search(remote, c,
                                    StartDate(cycle.clk), EndDate(cycle.clk, cycle.days)))}

\* the fetch path of the cycle that ends in this step raised as a whole
WholeFetchRaised ==
    /\ pc = "fetch"
    /\ pc' = "idle"
    /\ \/ cycle'.fault
       \/ FetchEvents(calendars, remote, cycle'.searchFail, {},
                      At(remote, cycle'.clk, options)).raised

\* C4 -- Stale-serve: when the whole fetch path raises and a previous
\* Snapshot exists, refresh returns that Snapshot, equal in every field, and
\* raises nothing.
C4_StaleServe ==
    [][(WholeFetchRaised /\ data # NoData) =>
            (data' = data /\ call'.result = "returned")]_vars

\* C4 witness: a Snapshot with events and an older fetch time was served
\* again by a cycle that raised
C4_Witness ==
    /\ cycle.outcome = "stale"
    /\ "last_updated" \in DOMAIN data
    /\ data.last_updated # Now(clock)
    /\ Len(data.events) > 0

\* C5 -- Total fetch failure keeps the last-known-good events: when a
\* Snapshot with events exists and the search of every known calendar fails
\* in the next cycle, the Snapshot served afterwards still has those events.
C5_TotalFailureKeepsEvents ==
    [][(/\ pc = "fetch"
        /\ pc' = "idle"
        /\ data # NoData
        /\ Len(data.events) > 0
        /\ calendars # <<>>
        /\ ~cycle'.fault
        /\ cycle'.searchFail = Range(calendars)) =>
            data'.events = data.events]_vars

\* C6 -- Empty fallback: when the whole fetch path raises and no previous
\* Snapshot exists, refresh returns the empty Snapshot stamped with the
\* current time and raises nothing.
C6_EmptyFallback ==
    [][(WholeFetchRaised /\ data = NoData) =>
            /\ data' = [events |-> <<>>, calendars |-> <<>>,
                        last_updated |-> Now(clock)]
            /\ call'.result = "returned"]_vars

\* C6 witness: the first cycle raised at a time after 0 and the empty
\* Snapshot of that time is served
C6_Witness ==
    /\ cycle.outcome = "empty"
    /\ clock > 0
    /\ data = [events |-> <<>>, calendars |-> <<>>, last_updated |-> Now(clock)]

\* C7 -- Setup is re-run until READY: a refresh called while no setup has
\* succeeded yet runs the setup before it fetches.
C7_SetupRerunUntilReady ==
    [][(pc = "idle" /\ call'.result = "running" /\ ~ready) => pc' = "attempt"]_vars

\* C8 -- Fail-fast after authentication failure: a call made after a setup
\* ended in the authentication failure ends at once in a failure and performs
\* no network I/O.
C8_FailFastAfterAuth ==
    call.afterAuth =>
        /\ pc = "idle"
        /\ call.result \in {"raised_auth", "raised_conn"}
        /\ ~call.io

\* events are in ascending order of start
Sorted(evs) ==
    \A i, j \in 1..Len(evs) :
        i < j => /\ Comparable(evs[i].start, evs[j].start)
                 /\ DtLeq(evs[i].start, evs[j].start)

Key(e) == [uid |-> e.uid, calendar_id |-> e.calendar_id, start |-> e.start]
Keys(evs) == [i \in 1..Len(evs) |-> Key(evs[i])]

\* the events of the last cycle in the order of their collection: calendars
\* in discovery order, events in the order the search returned them (of the
\* readings of the clock only the one of the window decides on the keys)
Collected ==
    Keys(FetchLoop(calendars, remote, cycle.searchFail, {}, At(remote, cycle.clk, options),
                   [all_events |-> <<>>, calendar_info |-> <<>>,
                    failed |-> <<>>]).all_events)

WithStart(keys, s) == SelectSeq(keys, LAMBDA k : k.start = s)

\* C9 -- Sorting invariant: the events of every served Snapshot are in
\* ascending order of start, and in a Snapshot built by a cycle the events
\* of equal start are in the order of their collection.
C9_SortedStable ==
    data # NoData =>
        /\ Sorted(data.events)
        /\ cycle.outcome = "built" =>
              \A s \in {k.start : k \in Range(Collected)} :
                  WithStart(Keys(data.events), s) = WithStart(Collected, s)

\* C9 witness: a cycle built a Snapshot of two events that were collected
\* in descending order of start
C9_Witness ==
    /\ cycle.outcome = "built"
    /\ Len(data.events) = 2
    /\ Len(Collected) = 2
    /\ DtLess(Collected[2].start, Collected[1].start)
    /\ Keys(data.events) = <<Collected[2], Collected[1]>>

\* C10 -- start <= end holds for every Event the parser produces.
C10_StartBeforeEnd ==
    (pc = "parsed" /\ pout # <<>>) =>
        /\ Comparable(pout[1].start, pout[1].end)
        /\ DtLeq(pout[1].start, pout[1].end)

\* C11 -- The normalizer always yields a timezone-aware instant: the start
\* and the end of every parsed event are aware, whatever the raw values.
C11_AlwaysAware ==
    (pc = "parsed" /\ pout # <<>>) =>
        /\ pout[1].start.aware
        /\ pout[1].end.aware

\* C12 -- All-day classification: a raw start that is a pure date gives
\* all_day = TRUE and a start at the local midnight of that date; a raw start
\* that is a timed instant gives all_day = FALSE, at midnight too.
C12_AllDayByType ==
    (pc = "parsed" /\ pout # <<>>) =>
        /\ pin.raw.dtstart.kind = "date" =>
              /\ pout[1].all_day
              /\ pout[1].start = AsLocal(pin.raw.dtstart.wall * DayLen)
        /\ pin.raw.dtstart.kind = "datetime" => ~pout[1].all_day

\* C20 -- Discovery tolerates a failing display-name lookup: after a
\* successful setup the known calendars are all the calendars the server
\* returned, the ones whose name lookup failed included.
C20_DiscoveryKeepsAll ==
    setupResult = "ok" => Range(calendars) = Range(ServerCalendars)

\* the step is an async_create_event call that names a calendar id which is
\* not among the known calendars
UnknownCreateStep ==
    /\ pc = "idle"
    /\ cr' # cr
    /\ cr'.result # "none"
    /\ cr'.cid \notin Range(calendars)

\* C15 -- create_event with an unknown calendar id returns false at once:
\* nothing is submitted to the server, no refresh cycle runs, and the
\* Snapshot and the known calendars stay as they are.
C15_UnknownCalendar ==
    [][UnknownCreateStep =>
          /\ cr'.result = "false"
          /\ cr'.submit = "none"
          /\ pc' = "idle"
          /\ remote' = remote
          /\ data' = data
          /\ calendars' = calendars
          /\ cycle'.outcome = "none"
          /\ call' = call]_vars

C15_Witness ==
    /\ pc = "idle"
    /\ cr.result = "false"
    /\ cr.submit = "none"
    /\ calendars # <<>>
    /\ cr.cid \notin Range(calendars)
    /\ data # NoData

\* the step is the executor job of async_create_event, and it raised
FailedSubmitStep ==
    /\ pc = "submit"
    /\ cr'.submit \in {"error", "error_stored"}

\* C16 -- create_event whose submission fails returns false (no exception
\* reaches the caller), runs no refresh cycle and leaves the known calendars
\* and the Snapshot as they are; the server has the whole event or nothing
\* of it.
C16_FailedSubmit ==
    [][FailedSubmitStep =>
          /\ cr'.result = "false"
          /\ pc' = "idle"
          /\ data' = data
          /\ calendars' = calendars
          /\ cycle' = cycle
          /\ call' = call
          /\ \/ remote' = remote
             \/ remote' = SaveEvent(remote, cr.cid,
                            CreateRecord(CreateTitle, cr.start, cr.end, clock))]_vars

C16_Witness ==
    /\ pc = "idle"
    /\ cr.submit = "error"
    /\ cr.result = "false"
    /\ cr.cid \in Range(calendars)
    /\ data # NoData
    /\ cycle.outcome = "none"

\* C17 -- create_event is write-then-reread: once the submission has
\* succeeded the call returns true, whatever becomes of the refresh cycle it
\* triggers.
C17_WriteThenReread ==
    (pc = "idle" /\ cr.submit = "ok") => cr.result = "true"

C17_Witness ==
    /\ pc = "idle"
    /\ cr.submit = "ok"
    /\ cr.result = "true"
    /\ cycle.outcome \in {"stale", "empty"}

\* the instant a created start or end is read back as
Normalized(d) == ParseDatetime(RawDatetime(d.wall, d.aware, d.off), 0)

\* the events of Snapshot d that are the event of the last create call
CreatedIn(d) ==
    SelectSeq(d.events, LAMBDA e : /\ e.calendar_id = cr.cid
                                   /\ e.summary = CreateTitle
                                   /\ e.start = Normalized(cr.start)
                                   /\ e.end = Normalized(cr.end))

\* the events on the server with the title and the start of the last create
\* call, in its calendar
StoredAlike ==
    SelectSeq(remote, LAMBDA x : /\ x.cal = cr.cid
                                 /\ x.raw.summary = CreateTitle
                                 /\ x.raw.dtstart.wall = cr.start.wall
                                 /\ x.raw.dtstart.aware = cr.start.aware)

\* the start and the end of the last create call lie in the sync window of
\* the cycle
CreatedInWindow ==
    InRange([dtstart |-> RawDatetime(cr.start.wall, cr.start.aware, cr.start.off),
             dtend |-> RawDatetime(cr.end.wall, cr.end.aware, cr.end.off)],
            StartDate(cycle.clk), EndDate(cycle.clk, cycle.days))

\* a create call has returned true and the Snapshot is the one served by the
\* refresh it triggered; the server answered every request of that refresh
AfterCreate ==
    /\ pc = "idle"
    /\ cr.result = "true"
    /\ cycle.outcome # "none"
    /\ cycle.searchFail = {}
    /\ ~cycle.fault

\* C13 -- Round trip: after create_event has returned true, the Snapshot
\* served by the refresh it triggered holds exactly one Event of the target
\* calendar with the title, the start and the end of the call (modulo
\* normalization). Stated for the calls a refresh can show at all: the
\* event lies in the sync window of that refresh, the calendar holds no
\* other event with its title and start, and no request of the refresh
\* failed on the server. Violated: the sort of the refresh raises on a
\* naive start next to an aware one and the Snapshot without the event
\* stays.
C13_RoundTrip ==
    (AfterCreate /\ CreatedInWindow /\ Len(StoredAlike) = 1) =>
        Len(CreatedIn(data)) = 1

\* the step ends a fetch cycle that repeats the cycle which built the served
\* Snapshot, with nothing changed on the server in between
RepeatStep ==
    /\ pc = "fetch"
    /\ pc' = "idle"
    /\ cycle'.repeat # "no"

\* no raw start or end on the server is a value the normalizer replaces by
\* the current time
NoNowFallback ==
    \A i \in 1..Len(remote) :
        /\ remote[i].raw.dtstart.kind \notin {"none", "text_bad"}
        /\ remote[i].raw.dtend.kind \notin {"none", "text_bad"}

\* C14 -- Idempotence of refresh: two consecutive refresh cycles with no
\* upstream change in between (same calendars, same raw events, same sync
\* window) produce Snapshots with the same events, in the same order.
C14_Idempotent ==
    [][RepeatStep => data'.events = data.events]_vars

\* C14 (amended) -- the same, when no raw start or end on the server is a
\* value the normalizer replaces by the current time.
C14_IdempotentParsed ==
    [][(RepeatStep /\ NoNowFallback) => data'.events = data.events]_vars

C14_Witness ==
    /\ pc = "idle"
    /\ cycle.repeat = "later"
    /\ NoNowFallback
    /\ Len(data.events) > 1

\* the step ends a refresh cycle, of a refresh call or of a create call
CycleEndStep ==
    /\ pc \in {"fetch", "create_refresh"}
    /\ pc' = "idle"

\* C19 -- The Snapshot is copy-on-write: the Snapshot a consumer holds stays
\* as it was handed out, whatever refresh cycles, create calls and view
\* computations of the calendar entity and the sensor follow, at idle or
\* while a job is in flight; what the coordinator serves changes at no
\* other step than the end of a cycle, and then as a whole: to a Snapshot
\* the job built, with its four fields, or to the empty value served when
\* the first cycle fails.
C19_CopyOnWrite ==
    /\ [](view.held # NoData => view.held = view.at)
    /\ [][data' # data =>
            /\ CycleEndStep
            /\ IF cycle'.outcome = "built"
               THEN DOMAIN data' = {"events", "calendars", "last_updated",
                                    "failed_calendars"}
               ELSE data = NoData /\ data' = Fallback(NoData, clock)]_vars

\* a consumer holds a Snapshot with events that a later cycle has replaced;
\* the create call has saved its event and its refresh is in flight; the
\* unified entity has been asked for a range since the call began, and has
\* given events
C19_Witness ==
    /\ view.held # NoData
    /\ ~view.same
    /\ data # view.held
    /\ Len(view.held.events) > 0
    /\ pc = "create_refresh"
    /\ cr.submit = "ok"
    /\ view.kind = "range"
    /\ ~view.out.raised
    /\ Len(view.out.result) > 0

\* C18 -- Refresh cycles are serialized: whatever the interleaving of the
\* poll, the refresh_calendar service and the refresh of create_event, at
\* most one fetch cycle is in flight.
C18_Serialized == Len(conc.cycles) <= 1

\* the four fields of a Snapshot
SnapshotFields == {"events", "calendars", "last_updated", "failed_calendars"}

\* C29 -- Snapshot schema: every value refresh returns, on every path, has
\* the four Snapshot fields: events, calendars, the failed calendars and the
\* fetch timestamp.
C29_SnapshotSchema ==
    (call.result = "returned" /\ data # NoData) =>
        SnapshotFields \subseteq DOMAIN data

\* d is a Snapshot built by a fetch cycle
BuiltSnapshot(d) == d # NoData /\ "failed_calendars" \in DOMAIN d

\* C30 -- Snapshot linkage: in a Snapshot built by a fetch cycle every failed
\* calendar id is a key of calendars, every event's calendar_id is a key of
\* calendars and the event carries that calendar's name, and no event is of a
\* failed calendar.
C30_Linkage ==
    BuiltSnapshot(data) =>
        /\ Range(data.failed_calendars) \subseteq DOMAIN data.calendars
        /\ \A i \in 1..Len(data.events) :
              /\ data.events[i].calendar_id \in DOMAIN data.calendars
              /\ data.events[i].calendar
                    = data.calendars[data.events[i].calendar_id].name
              /\ data.events[i].calendar_id \notin Range(data.failed_calendars)
        /\ \A c \in DOMAIN data.calendars : data.calendars[c].id = c

C30_Witness ==
    /\ BuiltSnapshot(data)
    /\ data.failed_calendars # <<>>
    /\ Len(data.events) > 1
    /\ \E i \in 1..Len(data.events) : data.events[i].calendar = "Unknown Calendar"

\* the subsequence of evs of the events whose calendar_id is c
RECURSIVE OfCalendar(_, _)
OfCalendar(evs, c) ==
    IF evs = <<>> THEN <<>>
    ELSE IF Head(evs).calendar_id = c
         THEN <<Head(evs)>> \o OfCalendar(Tail(evs), c)
         ELSE OfCalendar(Tail(evs), c)

\* C28 -- per-calendar filtering: the list a view of entity c works on is the
\* subsequence of the Snapshot's events whose calendar_id is c, in the
\* Snapshot's order; the unified entity works on the whole sequence; no event
\* of another calendar is in the list of c.
C28_Filtering ==
    (view.cid # "" /\ data # NoData) =>
        /\ view.cid = "all" => view.list = data.events
        /\ view.cid # "all" => view.list = OfCalendar(data.events, view.cid)

C28_Witness ==
    /\ view.cid = "C"
    /\ data # NoData
    /\ view.list # <<>>
    /\ Len(view.list) < Len(data.events)
    /\ data.events[1].calendar_id # "C"

\* the events of evs that start after the instant now, and those going on at it
Upcoming(evs, now) == {i \in 1..Len(evs) : Instant(evs[i].start) > Instant(now)}
Ongoing(evs, now) ==
    {i \in 1..Len(evs) : /\ Instant(evs[i].start) <= Instant(now)
                         /\ Instant(now) <= Instant(evs[i].end)}
First(S) == CHOOSE i \in S : \A j \in S : i <= j

\* C23 -- next-event view: the event lookup of a calendar entity returns the
\* first of its filtered events that starts after now, else the first that is
\* going on at now, and no event only when there is neither.
C23_NextEvent ==
    (view.kind = "event" /\ data # NoData) =>
        LET evs == view.list
            now == Now(view.now)
            pick == IF Upcoming(evs, now) # {} THEN {First(Upcoming(evs, now))}
                    ELSE IF Ongoing(evs, now) # {} THEN {First(Ongoing(evs, now))}
                    ELSE {}
        IN /\ ~view.out.raised
           /\ pick = {} => view.out.result = <<>>
           /\ \A i \in pick :
                 view.out.result = <<[uid |-> evs[i].uid,
                                      summary |-> evs[i].summary,
                                      start |-> evs[i].start,
                                      end |-> evs[i].end]>>

\* C27 -- unique identifiers: the record a successful create_event call
\* submits has a uid that no earlier successful call of this coordinator
\* submitted, also when the two calls are made at the same clock instant.
\* On a server that saves every event, the events of earlier successful
\* calls are the events on the server with a uid of the coordinator.
C27_FreshUid ==
    [][(pc = "submit" /\ cr'.submit = "ok") =>
          \A i \in 1..Len(remote) :
              remote[i].raw.uid # remote'[Len(remote')].raw.uid]_vars

\* a stored record the parser makes an event of
WellFormed(x) ==
    /\ x.raw.dtstart.kind \notin {"missing", "list"}
    /\ x.raw.dtend.kind # "list"
Parseable(srv) == SelectSeq(srv, WellFormed)

\* C21 -- per-event failures are isolated: a raw event without a start, or
\* one whose parsing fails, is left out of the Snapshot and nothing else
\* changes: the cycle builds the Snapshot it would build if the server did
\* not hold that record, with the same events of the same and of the other
\* calendars and the same failed calendars, and it is not aborted.
C21_EventIsolation ==
    [][(pc = "fetch" /\ pc' = "idle" /\ ~cycle'.fault) =>
          /\ cycle'.outcome = "built"
          /\ \E rd \in Schedules(Parseable(remote), cycle.entered, clock,
                                cycle.seen) :
                data' = FetchEvents(calendars, Parseable(remote),
                                    cycle'.searchFail, {}, rd).value
          /\ Range(data'.failed_calendars) = cycle'.searchFail]_vars

C21_Witness ==
    /\ cycle.outcome = "built"
    /\ BuiltSnapshot(data)
    /\ Len(remote) = 2
    /\ remote[1].cal = "A" /\ ~WellFormed(remote[1])
    /\ remote[2].cal = "A" /\ WellFormed(remote[2])
    /\ data.failed_calendars = <<>>
    /\ Len(data.events) = 1
    /\ data.events[1].uid = remote[2].raw.uid

\* the display name the specification gives a raw attendee or organizer: the
\* common name when there is one, else the raw token
DisplayName(p) == IF p.params = "cn" THEN p.cn ELSE p.token

\* C22 -- attendee normalization: the attendees of the Event are one entry
\* per raw attendee, in the raw order, each the attendee's common name when
\* it has one and its raw token otherwise, whether the raw field is one value
\* or a list; the organizer is the same of the one organizer, and empty when
\* there is none.
C22_Attendees ==
    (pc = "parsed" /\ pout # <<>> /\ "attendee" \in DOMAIN pin.raw) =>
        LET f == pin.raw.attendee
            o == pin.raw.organizer
            raws == IF f.kind = "absent" THEN <<>>
                    ELSE IF f.kind = "list" THEN f.vals ELSE <<f.val>>
        IN /\ pout[1].attendees = [i \in 1..Len(raws) |-> DisplayName(raws[i])]
           /\ pout[1].organizer = IF o.kind = "absent" THEN ""
                                  ELSE DisplayName(o.val)

\* the step ends a fetch cycle that searched the calendars
SearchStep ==
    /\ pc = "fetch"
    /\ pc' = "idle"
    /\ cycle'.outcome = "built"

\* C26 -- sync window: a cycle searches every known calendar over the range
\* from today's local midnight to days_to_sync days later, the end not
\* included; days_to_sync is the option of the entry as the job of the
\* cycle read it (the one the entry has if none was stored meanwhile), 7
\* when the entry has none, and an integer from 1 to 30 whenever a cycle
\* uses it.
C26_SyncWindow ==
    [][SearchStep =>
          LET days == cycle'.days
              midnight == ((cycle'.clk + LocalOffset) \div DayLen) * DayLen
              inside == {i \in 1..Len(remote) :
                            /\ remote[i].cal \notin cycle'.searchFail
                            /\ midnight <= remote[i].raw.dtstart.wall
                            /\ remote[i].raw.dtstart.wall < midnight + days * DayLen}
          IN /\ \E s \in cycle.seen : s.days = days /\ s.at <= cycle'.clk
             /\ Cardinality(cycle.seen) = 1 =>
                    days = IF "days_to_sync" \in DOMAIN options
                           THEN options.days_to_sync ELSE 7
             /\ days \in 1..30
             /\ cycle'.window = <<Dt(midnight, TRUE, LocalOffset),
                                  Dt(midnight + days * DayLen, TRUE, LocalOffset)>>
             /\ {data'.events[i].uid : i \in 1..Len(data'.events)}
                    = {remote[i].raw.uid : i \in inside}]_vars

C26_Witness ==
    /\ cycle.outcome = "built"
    /\ options = [days_to_sync |-> 30, auto_refresh |-> TRUE]
    /\ cycle.days = 30
    /\ cycle.window[2].wall = cycle.window[1].wall + 30 * DayLen
    /\ \E i \in 1..Len(data.events) : data.events[i].uid = "d7"

\* C24 -- an authentication failure of the first setup is told to the host
\* as an authentication failure, for which the host asks for new credentials
\* and sets up no more on its own; a connection failure is told as not
\* ready, for which the host sets up again later.
C24_AuthSurfaced ==
    [][(entry.state = "setting_up" /\ entry'.state # "setting_up") =>
          /\ call.result = "raised_auth" => entry'.state = "auth_failed"
          /\ call.result = "raised_conn" => entry'.state = "setup_retry"]_vars

\* the auth marker of an error signal: "401", or the word "authentication"
\* in any case
Marker(err) == err.has401 \/ err.authWord \in {"lower", "upper"}

\* C25 -- the configuration step answers a failed connection test with the
\* form and a message and makes no entry: the authentication message when
\* the error has the auth marker, the connection message for every other
\* error, and the two messages differ; the connection setup of the engine
\* sorts the errors by the same marker.
C25_FlowMessages ==
    /\ [](flow.test = "raised" =>
             /\ flow.result = "form"
             /\ Marker(flow.err) => flow.base = "Authentication failed"
             /\ ~Marker(flow.err) => flow.base = "Connection failed")
    /\ [](lastErr # NoErr => (Marker(lastErr) <=> setupResult = "auth_failed"))
    /\ [][(entry.state = "none" /\ entry' # entry) =>
              (flow'.test = "ok" /\ flow'.result = "create_entry")]_vars

C25_Witness ==
    /\ flow.test = "raised"
    /\ flow.err.authWord = "upper"
    /\ ~flow.err.has401
    /\ flow.base = "Authentication failed"
    /\ entry.state = "setup_retry"
    /\ lastErr.authWord = "upper"
    /\ setupResult = "auth_failed"

\* C31 -- within one run of _async_setup the authentication classification
\* goes before the exhaustion of the attempts: when attempts that failed with
\* other errors are followed by an attempt, the second or the last, that
\* fails with an authentication-classified error, the run ends with the
\* authentication failure and not with the connection failure.
C31_AuthBeforeExhaustion ==
    (pc = "idle" /\ attempt >= 1 /\ lastErr # NoErr
        /\ (lastErr.has401 \/ lastErr.authWord \in {"lower", "upper"})) =>
        /\ setupResult = "auth_failed"
        /\ call.result = "raised_auth"
        /\ authFailed

C31_Witness ==
    /\ pc = "idle"
    /\ attempt = max_retries - 1
    /\ nAttempts = max_retries
    /\ nDelays = max_retries - 1
    /\ lastErr = [has401 |-> TRUE, authWord |-> "none"]
    /\ setupResult = "auth_failed"
    /\ call.result = "raised_auth"

\* C32 -- range query completeness: async_get_events returns, sorted by
\* start, every filtered event whose start lies in the range asked for, the
\* events without duration that start at the start of the range included,
\* and no event that lies outside the range.  Stated for Snapshots whose
\* starts and ends are all aware.
C32_RangeComplete ==
    (view.kind = "range" /\ data # NoData
        /\ \A i \in 1..Len(view.list) :
              view.list[i].start.aware /\ view.list[i].end.aware) =>
        LET evs == view.list
            s == Instant(view.rng[1])
            t == Instant(view.rng[2])
            res == view.out.result
        IN /\ ~view.out.raised
           /\ \A i \in 1..Len(evs) :
                 (s <= Instant(evs[i].start) /\ Instant(evs[i].start) < t) =>
                     \E j \in 1..Len(res) : /\ res[j].uid = evs[i].uid
                                            /\ res[j].start = evs[i].start
           /\ \A j \in 1..Len(res) :
                 /\ Instant(res[j].start) < t
                 /\ Instant(res[j].end) >= s
           /\ \A j \in 1..(Len(res) - 1) :
                 Instant(res[j].start) <= Instant(res[j + 1].start)

(***************************************************************************)
(* Several config entries under one host (__init__.py).  hass.data[DOMAIN] *)
(* maps the id of each entry that was set up to its coordinator; the two   *)
(* services of the domain are registered by every setup, with handlers     *)
(* that close over the coordinator of that setup.  Whether the connection  *)
(* setup of the first refresh succeeds and whether the platforms unload    *)
(* are inputs here; SpecEntry has the first refresh itself.  A refresh is  *)
(* two steps, the job that reads the server and the resumption that stores *)
(* its value, and other setups, unloads and calls run in between.          *)
(***************************************************************************)
\* the ids of the config entries (entry.entry_id)
HostEntries == {"A", "B"}

\* the host before any setup.  A coordinator is a record [id, client, data];
\* records with the same id stand for the same object, id 0 for none.
\* registry is the key set of hass.data[DOMAIN] and coord[e] the coordinator
\* last stored there for entry e; platforms holds the entries whose
\* platforms were forwarded; services is the entry of the coordinator the
\* registered handlers close over ("none": not registered) and bound that
\* coordinator; acted is the entry of the coordinator the last service call
\* acted on; op is the operation started last (resumed: a coroutine was
\* resumed since); job[e] is the value of the refresh job of e's setup that waits
\* to be stored; req is the refresh a service call requested, its job done
\* and its value not yet stored (id 0: none); server[e] holds the events on
\* the server of e's account
NoHost ==
    [state |-> "host",
     status |-> [e \in HostEntries |-> "not_loaded"],
     registry |-> {},
     platforms |-> {},
     services |-> "none",
     bound |-> [id |-> 0, client |-> "none", data |-> NoData],
     acted |-> "none",
     op |-> [op |-> "none", id |-> "none", ok |-> TRUE],
     coord |-> [e \in HostEntries |->
                    [id |-> 0, client |-> "none", data |-> NoData]],
     job |-> [e \in HostEntries |-> [raised |-> FALSE, value |-> NoData]],
     req |-> [id |-> 0, job |-> [raised |-> FALSE, value |-> NoData]],
     server |-> [e \in HostEntries |-> <<>>]]

\* async_setup_entry, were the coordinator stored before its first refresh
AsyncSetupEntryStoreFirst(h, e, ok, clk) ==
    IF ~ok
    THEN [h EXCEPT !.status[e] = "setup_retry",
                   !.registry = @ \cup {e},
                   !.op = [op |-> "setup", id |-> e, ok |-> FALSE]]
    ELSE [h EXCEPT !.status[e] = "first_refresh",
                   !.registry = @ \cup {e},
                   !.job[e] = FetchJob(h.server[e], FALSE, clk),
                   !.op = [op |-> "setup", id |-> e, ok |-> TRUE]]

\* async_setup_entry up to the job of its first refresh: a coordinator is
\* made; when the connection setup of the first refresh fails,
\* ConfigEntryNotReady is raised before anything is stored; otherwise the
\* job reads the server and the setup waits to be resumed with its value
AsyncSetupEntry(h, e, ok, clk) ==
    IF ~ok
    THEN [h EXCEPT !.status[e] = "setup_retry",
                   !.op = [op |-> "setup", id |-> e, ok |-> FALSE]]
    ELSE [h EXCEPT !.status[e] = "first_refresh",
                   !.job[e] = FetchJob(h.server[e], FALSE, clk),
                   !.op = [op |-> "setup", id |-> e, ok |-> TRUE]]

\* async_unload_entry: when the platforms unloaded, the coordinator is
\* popped and the services are removed if no coordinator is left
AsyncUnloadEntry(h, e, unload_ok) ==
    IF ~unload_ok
    THEN [h EXCEPT !.status[e] = "failed_unload",
                   !.op = [op |-> "unload", id |-> e, ok |-> FALSE]]
    ELSE LET reg == h.registry \ {e}
         IN  [h EXCEPT !.status[e] = "not_loaded",
                       !.registry = reg,
                       !.platforms = @ \ {e},
                       !.services = IF reg = {} THEN "none" ELSE @,
                       !.bound = IF reg = {} THEN NoHost.bound ELSE @,
                       !.op = [op |-> "unload", id |-> e, ok |-> TRUE]]

\* a call of refresh_calendar or create_event, up to the job of the refresh
\* it requests: the handler acts on the coordinator it closed over.
\* refresh_calendar requests a refresh of it; create_event calls its
\* async_create_event, which saves the event on the server of its account
\* and requests a refresh when the save did not raise (saved), and does
\* neither when it did; the call sends a span of naive datetimes
ServiceCall(h, name, saved, fault, clk) ==
    LET c == h.services
        span == CHOOSE x \in CreateSpans : ~x[1].aware
        srv == IF name = "create_event" /\ saved
               THEN SaveEvent(h.server[c], "A",
                        CreateRecord(CreateTitle, span[1], span[2], clk))
               ELSE h.server[c]
    IN [h EXCEPT !.acted = c,
                 !.server[c] = srv,
                 !.req = IF name = "refresh_calendar" \/ saved
                         THEN [id |-> h.bound.id,
                               job |-> FetchJob(srv, fault, clk)]
                         ELSE @,
                 !.op = [op |-> "call", id |-> name, ok |-> TRUE]]

\* the host sets up an entry that is not loaded, or was not ready.  The
\* connection setup of the first refresh fails or not (ok); the fetch jobs
\* of the refreshes of a setup succeed, those of the service calls may fail
HostSetup(e, ok) ==
    /\ entry.state = "host"
    /\ entry.status[e] \in {"not_loaded", "setup_retry"}
    /\ entry' = AsyncSetupEntry(entry, e, ok, clock)
    /\ UNCHANGED <<clock, remote, client, calendars, data, pc, caller, attempt,
                   nAttempts, nDelays, slept, setupResult, lastErr, ready,
                   authFailed, call, cycle, pin, pout, cr, view, conc, options, flow>>

\* async_setup_entry is resumed with the value of the job of its first
\* refresh: the value becomes the data of the new coordinator, which is
\* stored in hass.data[DOMAIN] in the place of the one stored before; no
\* handler and no request holds the new coordinator yet
HostSetupStore(e) ==
    /\ entry.state = "host"
    /\ entry.status[e] = "first_refresh"
    /\ LET used == {entry.coord[o].id : o \in HostEntries \ {e}}
                        \cup {entry.bound.id, entry.req.id}
           new == CHOOSE i \in 1..(Cardinality(HostEntries) + 2) :
                      /\ i \notin used
                      /\ \A j \in 1..(i - 1) : j \in used
       IN entry' = [entry EXCEPT
                       !.status[e] = "setting_up",
                       !.coord[e] = [id |-> new, client |-> "set",
                                     data |-> UpdateData(NoData, entry.job[e],
                                                         FALSE, clock)],
                       !.job[e] = NoHost.job[e],
                       !.registry = @ \cup {e},
                       !.op = [op |-> "resumed", id |-> "none", ok |-> TRUE]]
    /\ UNCHANGED <<clock, remote, client, calendars, data, pc, caller, attempt,
                   nAttempts, nDelays, slept, setupResult, lastErr, ready,
                   authFailed, call, cycle, pin, pout, cr, view, conc, options, flow>>

\* the platforms of the entry are set up: the calendar platform takes the
\* coordinator from hass.data[DOMAIN] and refreshes it a second time; the
\* job of that refresh reads the server
HostForward(e) ==
    /\ entry.state = "host"
    /\ entry.status[e] = "setting_up"
    /\ entry' = [entry EXCEPT
                    !.status[e] = "second_refresh",
                    !.job[e] = FetchJob(entry.server[e], FALSE, clock),
                    !.op = [op |-> "resumed", id |-> "none", ok |-> TRUE]]
    /\ UNCHANGED <<clock, remote, client, calendars, data, pc, caller, attempt,
                   nAttempts, nDelays, slept, setupResult, lastErr, ready,
                   authFailed, call, cycle, pin, pout, cr, view, conc, options, flow>>

\* the rest of async_setup_entry: the value of the second job is stored,
\* the platforms are set up; then both services are registered again, with
\* handlers bound to this coordinator, and the setup returns True
HostSetupEnd(e) ==
    /\ entry.state = "host"
    /\ entry.status[e] = "second_refresh"
    /\ LET co == [entry.coord[e] EXCEPT
                     !.data = UpdateData(@, entry.job[e], FALSE, clock)]
       IN entry' = [entry EXCEPT
                       !.status[e] = "loaded",
                       !.coord[e] = co,
                       !.job[e] = NoHost.job[e],
                       !.platforms = @ \cup {e},
                       !.services = e,
                       !.bound = co,
                       !.op = [op |-> "resumed", id |-> "none", ok |-> TRUE]]
    /\ UNCHANGED <<clock, remote, client, calendars, data, pc, caller, attempt,
                   nAttempts, nDelays, slept, setupResult, lastErr, ready,
                   authFailed, call, cycle, pin, pout, cr, view, conc, options, flow>>

\* the host unloads a loaded entry
HostUnload(e, unload_ok) ==
    /\ entry.state = "host"
    /\ entry.status[e] = "loaded"
    /\ entry' = AsyncUnloadEntry(entry, e, unload_ok)
    /\ UNCHANGED <<clock, remote, client, calendars, data, pc, caller, attempt,
                   nAttempts, nDelays, slept, setupResult, lastErr, ready,
                   authFailed, call, cycle, pin, pout, cr, view, conc, options, flow>>

\* somebody calls a registered service while no requested refresh is under
\* way
HostCall(name, saved, fault) ==
    /\ entry.state = "host"
    /\ entry.services # "none"
    /\ entry.req.id = 0
    /\ name = "refresh_calendar" => saved
    /\ ~saved => ~fault
    /\ entry' = ServiceCall(entry, name, saved, fault, clock)
    /\ UNCHANGED <<clock, remote, client, calendars, data, pc, caller, attempt,
                   nAttempts, nDelays, slept, setupResult, lastErr, ready,
                   authFailed, call, cycle, pin, pout, cr, view, conc, options, flow>>

\* the requested refresh is resumed with the value of its job: the value,
\* or the fallback, becomes the data of the coordinator the handler closed
\* over when it was called, whoever holds that coordinator by now
HostCallEnd ==
    /\ entry.state = "host"
    /\ entry.req.id # 0
    /\ LET id == entry.req.id
           put(co) == IF co.id = id
                      THEN [co EXCEPT !.data = UpdateData(@, entry.req.job,
                                                          FALSE, clock)]
                      ELSE co
       IN entry' = [entry EXCEPT
                       !.coord = [e \in HostEntries |-> put(entry.coord[e])],
                       !.bound = put(@),
                       !.req = NoHost.req,
                       !.op = [op |-> "resumed", id |-> "none", ok |-> TRUE]]
    /\ UNCHANGED <<clock, remote, client, calendars, data, pc, caller, attempt,
                   nAttempts, nDelays, slept, setupResult, lastErr, ready,
                   authFailed, call, cycle, pin, pout, cr, view, conc, options, flow>>

InitHost ==
    /\ clock = 0
    /\ remote = <<>>
    /\ client = "none"
    /\ calendars = <<>>
    /\ data = NoData
    /\ pc = "idle"
    /\ caller = "none"
    /\ attempt = 0
    /\ nAttempts = 0
    /\ nDelays = 0
    /\ slept = 0
    /\ setupResult = "none"
    /\ lastErr = NoErr
    /\ ready = FALSE
    /\ authFailed = FALSE
    /\ call = NoCall
    /\ cycle = NoCycle
    /\ pin = [raw |-> NoRaw, ts |-> <<>>]
    /\ pout = <<>>
    /\ cr = NoCreate
    /\ view = NoView
    /\ conc = NoConc
    /\ options = EntryOptions
    /\ entry = NoHost
    /\ flow = NoFlow

NextHost ==
    \/ \E e \in HostEntries, ok \in BOOLEAN : HostSetup(e, ok)
    \/ \E e \in HostEntries : HostSetupStore(e)
    \/ \E e \in HostEntries : HostForward(e)
    \/ \E e \in HostEntries : HostSetupEnd(e)
    \/ \E e \in HostEntries, unload_ok \in BOOLEAN : HostUnload(e, unload_ok)
    \/ \E name \in {"refresh_calendar", "create_event"},
          saved, fault \in BOOLEAN :
            HostCall(name, saved, fault)
    \/ HostCallEnd

SpecHost == InitHost /\ [][NextHost]_vars

\* the entries the host holds as loaded
HostLoaded == {e \in HostEntries : entry.status[e] \in {"loaded", "failed_unload"}}

\* the entries whose setup waits for its platforms
HostInSetup ==
    {e \in HostEntries :
        entry.status[e] \in {"first_refresh", "setting_up", "second_refresh"}}

\* C33 -- Service binding across accounts: after any sequence of setups and
\* unloads of config entries, none of them under way, the two services are
\* registered exactly when at least one entry is loaded, and a service call
\* acts on the coordinator
\* of an entry that is loaded at the time of the call, never on that of an
\* entry that was unloaded.
C33_ServicesActOnLoaded ==
    (entry.state = "host" /\ HostInSetup = {}) =>
        /\ (entry.services # "none") <=> (HostLoaded # {})
        /\ entry.op.op = "call" => entry.acted \in HostLoaded

\* C35 -- A failed entry setup leaves nothing registered: when the first
\* refresh of a config entry fails, async_setup_entry reports the failure
\* (the host holds the entry for another setup), its coordinator is not in
\* the registry, none of its platforms is forwarded, the services stay as
\* they were, and the other entries and their registrations are unchanged.
C35_FailedSetupFrame ==
    [][(entry.state = "host" /\ entry' # entry
            /\ entry'.op.op = "setup" /\ ~entry'.op.ok) =>
        LET e == entry'.op.id
        IN  /\ entry'.status[e] = "setup_retry"
            /\ e \notin entry'.registry
            /\ e \notin entry'.platforms
            /\ entry'.registry = entry.registry
            /\ entry'.platforms = entry.platforms
            /\ entry'.services = entry.services
            /\ \A o \in HostEntries \ {e} : entry'.status[o] = entry.status[o]]_vars

C35_Witness ==
    /\ entry.state = "host"
    /\ entry.op = [op |-> "setup", id |-> "B", ok |-> FALSE]
    /\ entry.status["B"] = "setup_retry"
    /\ entry.status["A"] = "loaded"
    /\ entry.registry = {"A"}
    /\ entry.platforms = {"A"}
    /\ entry.services = "A"

(***************************************************************************)
(* The attributes of a calendar entity (calendar.py) and the sensor of     *)
(* today's events (sensor.py): counts per day for the seven days from      *)
(* today's local midnight.                                                 *)
(***************************************************************************)
WeekDays == 7    \* range(7) and timedelta(days=7)

\* strftime("%Y-%m-%d"): the day of a datetime's own wall clock, whatever
\* its offset is
DayKey(d) == d.wall \div DayLen

\* x + timedelta(days=n)
PlusDays(d, n) == [d EXCEPT !.wall = @ + n * DayLen]

\* sum(daily_counts.values())
RECURSIVE SumCounts(_, _)
SumCounts(f, keys) ==
    IF keys = {} THEN 0
    ELSE LET k == CHOOSE x \in keys : TRUE
         IN  f[k] + SumCounts(f, keys \ {k})

\* extra_state_attributes: a bucket per day key of the seven days; an event
\* is counted in the bucket of its own day key, and is one of the week's
\* events when now <= start < now + 7 days, a comparison that raises
\* TypeError on a naive start
ExtraStateAttributes(d, cid, clk) ==
    IF d = NoData THEN [raised |-> FALSE, result |-> <<>>, snapshot |-> d]
    ELSE
    LET evs == GetFilteredEvents(d, cid).list
        now == StartDate(clk)
        keys == {DayKey(PlusDays(now, i)) : i \in 0..(WeekDays - 1)}
        daily_counts ==
            [k \in keys |->
                Cardinality({i \in 1..Len(evs) : DayKey(evs[i].start) = k})]
        weekly_events ==
            {i \in 1..Len(evs) :
                /\ DtLeq(now, evs[i].start)
                /\ DtLess(evs[i].start, PlusDays(now, WeekDays))}
    IN IF \E i \in 1..Len(evs) : ~Comparable(evs[i].start, now)
       THEN [raised |-> TRUE, result |-> <<>>, snapshot |-> d]
       ELSE [raised |-> FALSE,
             result |-> [events_today |-> daily_counts[DayKey(now)],
                         events_tomorrow |-> daily_counts[DayKey(PlusDays(now, 1))],
                         events_this_week |-> Cardinality(weekly_events),
                         daily_counts |-> daily_counts],
             snapshot |-> d]

\* AppleCalendarTodaySensor.native_value: a naive start is made local, and
\* the events with today <= start < tomorrow are counted
TodayCount(d, clk) ==
    IF d = NoData \/ "events" \notin DOMAIN d THEN 0
    ELSE LET today == StartDate(clk)
             tomorrow == PlusDays(today, 1)
             local(s) == IF s.aware THEN s ELSE AsLocal(s.wall)
         IN  Cardinality({i \in 1..Len(d.events) :
                 /\ DtLeq(today, local(d.events[i].start))
                 /\ DtLess(local(d.events[i].start), tomorrow)})

\* the host reads the attributes of a calendar entity
ViewAttributes(cid) ==
    /\ LET res == ExtraStateAttributes(data, cid, clock)
       IN /\ data' = res.snapshot
          /\ view' = Filtered(AfterView(view, res), data, cid, "attrs", clock, <<>>)
    /\ UNCHANGED <<clock, remote, client, calendars, pc, caller, attempt,
                   nAttempts, nDelays, slept, setupResult, lastErr, ready,
                   authFailed, call, cycle, pin, pout, cr, conc,
                   options, entry, flow>>

\* the host reads the state of the sensor of today's events
ViewToday ==
    /\ LET res == [raised |-> FALSE, result |-> TodayCount(data, clock),
                   snapshot |-> data]
       IN /\ data' = res.snapshot
          /\ view' = Filtered(AfterView(view, res), data, "all", "today", clock, <<>>)
    /\ UNCHANGED <<clock, remote, client, calendars, pc, caller, attempt,
                   nAttempts, nDelays, slept, setupResult, lastErr, ready,
                   authFailed, call, cycle, pin, pout, cr, conc,
                   options, entry, flow>>

\* the coordinator and the views of its entities, on a server that answers
\* the setup: the entities are read at any time, also while a refresh waits
\* for its executor job
NextView ==
    \/ Tick
    \/ RefreshCall
    \/ SetupAttemptOk({})
    \/ \E searchFail \in SUBSET (Range(calendars) \cap {"C"}),
          fault \in BOOLEAN, rd \in JobSchedules :
            FetchStep(searchFail, {}, fault, rd)
    \/ \E cid \in ViewCals, rng \in ViewRanges : ViewGetEvents(cid, rng)
    \/ \E cid \in ViewCals : ViewEvent(cid)
    \/ \E cid \in ViewCals : ViewAttributes(cid)
    \/ ViewToday

SpecView == Init /\ [][NextView]_vars

\* the Snapshot shared by the coordinator and its consumers: a consumer
\* keeps a reference while refresh cycles and a create call go on and the
\* unified calendar entity and the sensor are read, at any time, also while
\* a refresh or the create call waits for its executor job.  The server
\* holds one event less than it can, and the call sends a naive span, which
\* is read back aware.
InitShared == Init /\ Len(remote) = MaxEvents - 1

NextShared ==
    \/ Tick
    \/ RefreshCall
    \/ SetupAttemptOk({})
    \/ \E fault \in BOOLEAN, rd \in JobSchedules :
            FetchStep({}, {}, fault, rd)
    \/ \E span \in {s \in CreateSpans : ~s[1].aware} : CreateCall("A", span)
    \/ \E busy \in BOOLEAN : CreateSubmit("ok", busy)
    \/ \E fault \in BOOLEAN, rd \in JobSchedules :
            CreateRefresh({}, {}, fault, rd)
    \/ HandOut
    \/ \E rng \in ViewRanges : ViewGetEvents("all", rng)
    \/ ViewEvent("all")
    \/ ViewAttributes("all")
    \/ ViewToday

SpecShared == InitShared /\ [][NextShared]_vars

\* C34 -- 7-day view consistency: in the attributes of a calendar entity,
\* whatever UTC offset the starts of the events carry, the seven buckets of
\* daily_counts add up to events_this_week, which is the number of filtered
\* events that start in [today's local midnight, + 7 days), and events_today
\* is the number of filtered events that start in [today's local midnight,
\* tomorrow's local midnight).
C34_WeekConsistent ==
    (view.kind = "attrs" /\ data # NoData
        /\ \A i \in 1..Len(view.list) : view.list[i].start.aware) =>
        LET evs == view.list
            m == Instant(StartDate(view.now))
            a == view.out.result
            week == {i \in 1..Len(evs) :
                        m <= Instant(evs[i].start)
                        /\ Instant(evs[i].start) < m + WeekDays * DayLen}
            today == {i \in 1..Len(evs) :
                        m <= Instant(evs[i].start)
                        /\ Instant(evs[i].start) < m + DayLen}
        IN  /\ ~view.out.raised
            /\ SumCounts(a.daily_counts, DOMAIN a.daily_counts) = a.events_this_week
            /\ a.events_this_week = Cardinality(week)
            /\ a.events_today = Cardinality(today)

====
